---- MODULE Spec2Model ----
(***************************************************************************)
(* The test-orchestration harness of the Daytona SDK runtime examples:     *)
(* the logger (addLog), the test-result tracker (updateTestStatus), the    *)
(* per-test wrapper (runTestWithErrorHandling), the suite driver           *)
(* (runAllTests / runAllDaytonaTests) and the summary printer, in the      *)
(* Deno class, the Bun class and the browser React component.              *)
(*                                                                         *)
(* The SDK is an opaque collaborator.  Every test body is written down as  *)
(* the sequence of its statements that the harness can observe: addLog     *)
(* calls, awaited calls and synchronous SDK calls, with the branches the   *)
(* body takes on the values the SDK returned.  An awaited call resolves,   *)
(* rejects or never settles; a statement that reads a value the SDK        *)
(* returned may throw; a callback handed to the SDK may log while its call *)
(* is pending.  A value that is thrown can or cannot be converted to a     *)
(* string, which is what the catch blocks of the wrapper and of the driver *)
(* do with it.  One step of a body is one statement: at every awaited     *)
(* call the body returns to the event loop, where another handler can run. *)
(*                                                                         *)
(* A LogEntry's timestamp is a wall-clock string that no operation reads   *)
(* back; entries are modelled by their type, message and category, the     *)
(* message by its constant text.  The remote account is modelled by the    *)
(* kinds of resources that each test provisioned and that still exist.     *)
(*                                                                         *)
(* Spec is a run of the driver, SpecLive the same run under the scheduling *)
(* of the event loop, SpecTracker the logger and tracker driven directly,  *)
(* and SpecReact the class tracker next to the component's queued state    *)
(* updates.                                                                *)
(***************************************************************************)
EXTENDS Integers, Sequences, FiniteSets

\* ---------------------------------------------------------------- bounds
\* longest prefix of the declared list that a modelled run dispatches
NumTests == 2
\* longest prefix of the declared list for which a second run is explored
RerunTests == 1
\* entries that one test logs from a statement the SDK's answer repeats: a
\* callback invoked per chunk, a loop over a returned list
MaxRepeat == 1
\* longest global log explored by the tracker-level specification
MaxLogs == 3

VARIABLES
    variant,      \* "deno" | "bun" | "browser": which script is running
    suite,        \* how many names of the declared list the modelled script keeps
    pc,           \* position of the suite driver / wrapper
    idx,          \* index of the test being dispatched (0 before the first)
    step,         \* position in the current body: its next statement
    logs,         \* this.logs / logs state: the global log sequence
    testResults,  \* this.testResults / testResults state
    currentTest,  \* this.currentTest / currentTest state
    isRunning,    \* browser only: isRunning state
    setup,        \* "none" | "ok" | "nokey" | "ctor": how one-time setup went
    thrown,       \* "none" | "string" | "opaque": the value in flight to a catch block
    outcome,      \* per test index: "none" | "resolved" | "rejected"
    summary,      \* what printSummary printed, and how many times it ran
    own,          \* per test index: what its body provisioned in this run and has not deleted
    leaked,       \* per test index: kinds of resources that earlier runs left behind
    live,         \* per test index: kinds of resources it provisioned that still exist
    react,        \* browser tracker as React holds it: rendered state and queued updates
    call          \* the last primitive operation performed and its arguments

vars == <<variant, suite, pc, idx, step, logs, testResults, currentTest, isRunning,
          setup, thrown, outcome, summary, own, leaked, live, react, call>>

\* ------------------------------------------------------- declared suites
DenoTests ==
    << "Volumes Test", "Lifecycle Test", "File Operations Test",
       "Exec Command Test", "Declarative Image Test", "Git LSP Test",
       "Auto Delete Test", "Charts Test", "Auto Archive Test",
       "Deno Performance Test" >>

BunTests ==
    << "Volumes Test", "Lifecycle Test", "File Operations Test",
       "Exec Command Test", "Declarative Image Test", "Git LSP Test",
       "Auto Delete Test", "Charts Test", "Auto Archive Test",
       "Bun Performance Test" >>

BrowserTests ==
    << "Volumes Test", "Lifecycle Test", "Git LSP Test",
       "File Operations Test", "Exec Command Test", "Declarative Image Test",
       "Auto Delete Test", "Charts Test", "Auto Archive Test" >>

Variants == {"deno", "bun", "browser"}

DeclaredTests(v) ==
    IF v = "deno" THEN DenoTests
    ELSE IF v = "bun" THEN BunTests
    ELSE BrowserTests

Min(a, b) == IF a < b THEN a ELSE b

\* the tests a modelled run declares and dispatches: the first names of the list
tests(v) == SubSeq(DeclaredTests(v), 1, Min(suite, Len(DeclaredTests(v))))

\* the names the driver's awaited run...Test calls pass to
\* runTestWithErrorHandling, in call order
DenoCalls ==
    << "Volumes Test", "Lifecycle Test", "File Operations Test",
       "Exec Command Test", "Declarative Image Test", "Git LSP Test",
       "Auto Delete Test", "Charts Test", "Auto Archive Test",
       "Deno Performance Test" >>

BunCalls ==
    << "Volumes Test", "Lifecycle Test", "File Operations Test",
       "Exec Command Test", "Declarative Image Test", "Git LSP Test",
       "Auto Delete Test", "Charts Test", "Auto Archive Test",
       "Bun Performance Test" >>

\* mutation of BrowserCalls: two awaited calls in the other order
BrowserCalls_swapped ==
    << "Volumes Test", "Lifecycle Test", "File Operations Test",
       "Git LSP Test", "Exec Command Test", "Declarative Image Test",
       "Auto Delete Test", "Charts Test", "Auto Archive Test" >>

BrowserCalls ==
    << "Volumes Test", "Lifecycle Test", "Git LSP Test",
       "File Operations Test", "Exec Command Test", "Declarative Image Test",
       "Auto Delete Test", "Charts Test", "Auto Archive Test" >>

CallOrder(v) ==
    IF v = "deno" THEN DenoCalls
    ELSE IF v = "bun" THEN BunCalls
    ELSE BrowserCalls

\* the wrapper calls a modelled run makes: the first calls of the driver
dispatched(v) == SubSeq(CallOrder(v), 1, Min(suite, Len(CallOrder(v))))

\* mutation of DenoBodyCategories: one body logs under a misspelt category
DenoBodyCategories_typo ==
    << "Volumes Test", "Lifecycle", "File Operations Test",
       "Exec Command Test", "Declarative Image Test", "Git LSP Test",
       "Auto Delete Test", "Charts Test", "Auto Archive Test",
       "Deno Performance Test" >>

\* the category literal that the addLog calls inside the body of each
\* run...Test function pass, in the order of the awaited calls
DenoBodyCategories ==
    << "Volumes Test", "Lifecycle Test", "File Operations Test",
       "Exec Command Test", "Declarative Image Test", "Git LSP Test",
       "Auto Delete Test", "Charts Test", "Auto Archive Test",
       "Deno Performance Test" >>

BunBodyCategories ==
    << "Volumes Test", "Lifecycle Test", "File Operations Test",
       "Exec Command Test", "Declarative Image Test", "Git LSP Test",
       "Auto Delete Test", "Charts Test", "Auto Archive Test",
       "Bun Performance Test" >>

BrowserBodyCategories ==
    << "Volumes Test", "Lifecycle Test", "Git LSP Test",
       "File Operations Test", "Exec Command Test", "Declarative Image Test",
       "Auto Delete Test", "Charts Test", "Auto Archive Test" >>

BodyCategories(v) ==
    IF v = "deno" THEN DenoBodyCategories
    ELSE IF v = "bun" THEN BunBodyCategories
    ELSE BrowserBodyCategories

\* ------------------------------------------------------------ test bodies
\* One statement of a body.  kind: "log" (an addLog call), "call" (an awaited
\* call) or "sync" (a synchronous SDK call).  A log has its type and the
\* constant text of its message; reads says that the message is built from a
\* value the SDK returned.  A call has the name of what is awaited and its
\* effect on the account; with cb it is handed a callback that logs an entry
\* of that type and message; caught says that the body swallows its
\* rejection.  next is where control can go afterwards, relative to the
\* statement; bounded marks the head of a loop over a list the SDK returned.
Statement(kind, name, type, message, effect) ==
    [kind |-> kind, name |-> name, type |-> type, message |-> message,
     effect |-> effect, reads |-> FALSE, cb |-> FALSE, caught |-> FALSE,
     bounded |-> FALSE, next |-> {1}]

Log(type, message) == Statement("log", "addLog", type, message, "none")

LogOf(type, message) == [Log(type, message) EXCEPT !.reads = TRUE]

Await(name, effect) == Statement("call", name, "", "", effect)

AwaitLogging(name, effect, type, message) ==
    [Statement("call", name, type, message, effect) EXCEPT !.cb = TRUE]

AwaitCaught(name) == [Await(name, "none") EXCEPT !.caught = TRUE]

Sync(name) == Statement("sync", name, "", "", "none")

Then(statement, offsets) == [statement EXCEPT !.next = offsets]

Bounded(statement) == [statement EXCEPT !.bounded = TRUE]

\* mutation of Deno_runVolumesTest: sandbox2 is never deleted
Deno_runVolumesTest_missing ==
    << Await("daytona.volume.get", "volume"),
       Log("info", "Created/Retrieved volume: my-volume-deno"),
       Await("daytona.create", "create"),
       Log("success", "Created sandbox1 with volume mounted at"),
       Await("sandbox1.fs.createFolder", "none"),
       Log("info", "Created directory:"),
       Await("sandbox1.fs.uploadFile", "none"),
       Log("info", "Created file:"),
       Await("daytona.create", "create"),
       Log("success", "Created sandbox2 with volume mounted at"),
       Await("sandbox2.fs.listFiles", "none"),
       LogOf("info", "Files in"),
       Await("sandbox1.fs.downloadFile", "none"),
       LogOf("success", "File content:"),
       Await("daytona.delete", "delete"),
       Log("info", "Cleaned up sandboxes") >>

\* the body that runVolumesTest passes to runTestWithErrorHandling (deno)
Deno_runVolumesTest ==
    << Await("daytona.volume.get", "volume"),
       Log("info", "Created/Retrieved volume: my-volume-deno"),
       Await("daytona.create", "create"),
       Log("success", "Created sandbox1 with volume mounted at"),
       Await("sandbox1.fs.createFolder", "none"),
       Log("info", "Created directory:"),
       Await("sandbox1.fs.uploadFile", "none"),
       Log("info", "Created file:"),
       Await("daytona.create", "create"),
       Log("success", "Created sandbox2 with volume mounted at"),
       Await("sandbox2.fs.listFiles", "none"),
       LogOf("info", "Files in"),
       Await("sandbox1.fs.downloadFile", "none"),
       LogOf("success", "File content:"),
       Await("daytona.delete", "delete"),
       Await("daytona.delete", "delete"),
       Log("info", "Cleaned up sandboxes") >>

\* the body that runLifecycleTest passes to runTestWithErrorHandling (deno)
Deno_runLifecycleTest ==
    << Log("info", "Creating sandbox"),
       Await("daytona.create", "create"),
       Log("success", "Sandbox created"),
       Await("sandbox.setLabels", "none"),
       Log("info", "Set labels on sandbox"),
       Log("info", "Stopping sandbox"),
       Await("sandbox.stop", "none"),
       Log("success", "Sandbox stopped"),
       Log("info", "Starting sandbox"),
       Await("sandbox.start", "none"),
       Log("success", "Sandbox started"),
       Log("info", "Getting existing sandbox"),
       Await("daytona.get", "none"),
       Log("success", "Got existing sandbox"),
       Then(Await("existingSandbox.process.executeCommand", "none"), {1, 2}),
       Then(LogOf("error", "Command error:"), {2}),
       LogOf("success", "Command result:"),
       Await("daytona.list", "none"),
       LogOf("info", "Total sandboxes count:"),
       LogOf("info", "Sandbox info -> id:"),
       Log("info", "Deleting sandbox"),
       Await("sandbox.delete", "delete"),
       Log("success", "Sandbox deleted") >>

\* the body that runFileOperationsTest passes to runTestWithErrorHandling (deno)
Deno_runFileOperationsTest ==
    << Await("daytona.create", "create"),
       LogOf("success", "Created sandbox with ID:"),
       Await("sandbox.fs.listFiles", "none"),
       LogOf("info", "Initial files:"),
       Await("sandbox.fs.createFolder", "none"),
       Log("success", "Created directory:"),
       Await("Deno.writeTextFile", "none"),
       Await("sandbox.fs.uploadFiles", "none"),
       AwaitCaught("Deno.remove"),
       Await("Deno.writeTextFile", "none"),
       Await("sandbox.fs.uploadFiles", "none"),
       AwaitCaught("Deno.remove"),
       Await("Deno.writeTextFile", "none"),
       Await("sandbox.fs.uploadFiles", "none"),
       AwaitCaught("Deno.remove"),
       Log("success", "Uploaded multiple files"),
       Await("sandbox.process.executeCommand", "none"),
       LogOf("info", "Files in directory:"),
       Await("sandbox.process.executeCommand", "none"),
       Await("sandbox.process.executeCommand", "none"),
       LogOf("success", "Script output:"),
       Await("sandbox.fs.searchFiles", "none"),
       LogOf("info", "JSON files found:"),
       Await("sandbox.fs.replaceInFiles", "none"),
       Await("sandbox.fs.downloadFile", "none"),
       LogOf("success", "Updated config:"),
       Await("sandbox.fs.uploadFile", "none"),
       Log("success", "Created and saved report"),
       Await("daytona.delete", "delete"),
       Log("info", "Sandbox cleaned up") >>

\* the body that runExecCommandTest passes to runTestWithErrorHandling (deno)
Deno_runExecCommandTest ==
    << Await("daytona.create", "create"),
       Log("info", "Running basic execution tests..."),
       Then(Await("sandbox.process.codeRun", "none"), {1, 2}),
       Then(LogOf("error", "Error running code:"), {2}),
       LogOf("success", "Code result:"),
       Then(Await("sandbox.process.executeCommand", "none"), {1, 2}),
       Then(LogOf("error", "Error running command:"), {2}),
       LogOf("success", "Command result:"),
       Log("info", "Running session execution tests..."),
       Await("sandbox.process.createSession", "none"),
       Log("success", "Created session: deno-exec-session-1"),
       Await("sandbox.process.executeSessionCommand", "none"),
       Await("sandbox.process.executeSessionCommand", "none"),
       LogOf("success", "DENO_ENV="),
       Await("sandbox.process.executeSessionCommand", "none"),
       LogOf("info", "Deno performance:"),
       Await("sandbox.process.deleteSession", "none"),
       Log("success", "Deleted session: deno-exec-session-1"),
       Await("daytona.delete", "delete"),
       Log("info", "Sandbox cleaned up") >>

\* the body that runDeclarativeImageTest passes to runTestWithErrorHandling (deno)
Deno_runDeclarativeImageTest ==
    << Log("info", "Creating snapshot with name:"),
       Sync("Image.debianSlim"),
       Log("info", "Creating Snapshot:"),
       AwaitLogging("daytona.snapshot.create", "snapshot", "info", "Snapshot:"),
       Log("info", "Creating Sandbox from Pre-built Snapshot"),
       Await("daytona.create", "create"),
       Log("info", "Verifying sandbox from pre-built image:"),
       Await("sandbox.process.executeCommand", "none"),
       LogOf("success", "Deno environment:"),
       Await("sandbox.process.executeCommand", "none"),
       LogOf("info", "Deno startup performance:"),
       Await("daytona.delete", "delete"),
       Log("info", "Cleaned up sandbox") >>

\* the body that runGitLspTest passes to runTestWithErrorHandling (deno)
Deno_runGitLspTest ==
    << Await("daytona.create", "create"),
       Await("sandbox.git.clone", "none"),
       Log("success", "Repository cloned successfully"),
       Await("sandbox.fs.findFiles", "none"),
       Then(LogOf("info", "Matches found:"), {1, 14}),
       Await("sandbox.createLspServer", "none"),
       Await("lsp.start", "none"),
       Log("success", "Language server started"),
       Await("lsp.didOpen", "none"),
       LogOf("info", "Opened file:"),
       Await("lsp.documentSymbols", "none"),
       LogOf("info", "Symbols:"),
       Await("sandbox.fs.replaceInFiles", "none"),
       Log("success", "Fixed error in document"),
       Await("lsp.didClose", "none"),
       Await("lsp.didOpen", "none"),
       Await("lsp.completions", "none"),
       LogOf("info", "Completions:"),
       Await("daytona.delete", "delete"),
       Log("info", "Sandbox cleaned up") >>

\* the body that runAutoDeleteTest passes to runTestWithErrorHandling (deno)
Deno_runAutoDeleteTest ==
    << Await("daytona.create", "create"),
       LogOf("info", "Default auto-delete interval:"),
       Await("sandbox1.setAutoDeleteInterval", "none"),
       LogOf("success", "Auto-delete set to 1 hour:"),
       Await("sandbox1.setAutoDeleteInterval", "none"),
       LogOf("success", "Auto-delete immediate:"),
       Await("sandbox1.setAutoDeleteInterval", "none"),
       LogOf("success", "Auto-delete disabled:"),
       Await("daytona.create", "create"),
       LogOf("success", "Sandbox2 auto-delete (1 day):"),
       Await("sandbox1.delete", "delete"),
       Await("sandbox2.delete", "delete"),
       Log("info", "Cleaned up sandboxes") >>

\* the body that runChartsTest passes to runTestWithErrorHandling (deno)
Deno_runChartsTest ==
    << Await("daytona.create", "create"),
       Then(Await("sandbox.process.codeRun", "none"), {1, 3}),
       LogOf("error", "Execution failed with exit code"),
       Then(LogOf("error", "Output:"), {4}),
       Then(Log("success", "Chart execution successful"), {1, 3}),
       Then(Bounded(LogOf("success", "Generated chart:")), {0, 1, 2}),
       Then(LogOf("info", "Chart has image data ("), {-1, 1}),
       Await("daytona.delete", "delete"),
       Log("info", "Sandbox cleaned up") >>

\* the body that runAutoArchiveTest passes to runTestWithErrorHandling (deno)
Deno_runAutoArchiveTest ==
    << Await("daytona.create", "create"),
       LogOf("info", "Default auto-archive interval:"),
       Await("sandbox1.setAutoArchiveInterval", "none"),
       LogOf("success", "Auto-archive set to 1 hour:"),
       Await("daytona.create", "create"),
       LogOf("success", "Sandbox2 auto-archive (max):"),
       Await("daytona.create", "create"),
       LogOf("success", "Sandbox3 auto-archive (1 day):"),
       Await("sandbox1.delete", "delete"),
       Await("sandbox2.delete", "delete"),
       Await("sandbox3.delete", "delete"),
       Log("info", "Cleaned up all sandboxes") >>

\* the body that runDenoPerformanceTest passes to runTestWithErrorHandling (deno)
Deno_runDenoPerformanceTest ==
    << Await("daytona.create", "create"),
       Log("info", "Testing Deno performance features..."),
       Await("sandbox.process.codeRun", "none"),
       LogOf("success", "File I/O performance:"),
       Await("sandbox.process.codeRun", "none"),
       LogOf("success", "HTTP performance:"),
       Await("sandbox.process.codeRun", "none"),
       LogOf("success", "Permission test:"),
       Await("daytona.delete", "delete"),
       Log("info", "Sandbox cleaned up") >>

\* the body that runVolumesTest passes to runTestWithErrorHandling (bun)
Bun_runVolumesTest ==
    << Await("daytona.volume.get", "volume"),
       Log("info", "Created/Retrieved volume: my-volume-bun"),
       Await("daytona.create", "create"),
       Log("success", "Created sandbox1 with volume mounted at"),
       Await("sandbox1.fs.createFolder", "none"),
       Log("info", "Created directory:"),
       Await("sandbox1.fs.uploadFile", "none"),
       Log("info", "Created file:"),
       Await("daytona.create", "create"),
       Log("success", "Created sandbox2 with volume mounted at"),
       Await("sandbox2.fs.listFiles", "none"),
       LogOf("info", "Files in"),
       Await("sandbox1.fs.downloadFile", "none"),
       LogOf("success", "File content:"),
       Await("daytona.delete", "delete"),
       Await("daytona.delete", "delete"),
       Log("info", "Cleaned up sandboxes") >>

\* the body that runLifecycleTest passes to runTestWithErrorHandling (bun)
Bun_runLifecycleTest ==
    << Log("info", "Creating sandbox"),
       Await("daytona.create", "create"),
       Log("success", "Sandbox created"),
       Await("sandbox.setLabels", "none"),
       Log("info", "Set labels on sandbox"),
       Log("info", "Stopping sandbox"),
       Await("sandbox.stop", "none"),
       Log("success", "Sandbox stopped"),
       Log("info", "Starting sandbox"),
       Await("sandbox.start", "none"),
       Log("success", "Sandbox started"),
       Log("info", "Getting existing sandbox"),
       Await("daytona.get", "none"),
       Log("success", "Got existing sandbox"),
       Then(Await("existingSandbox.process.executeCommand", "none"), {1, 2}),
       Then(LogOf("error", "Command error:"), {2}),
       LogOf("success", "Command result:"),
       Await("daytona.list", "none"),
       LogOf("info", "Total sandboxes count:"),
       LogOf("info", "Sandbox info -> id:"),
       Log("info", "Deleting sandbox"),
       Await("sandbox.delete", "delete"),
       Log("success", "Sandbox deleted") >>

\* the body that runFileOperationsTest passes to runTestWithErrorHandling (bun)
Bun_runFileOperationsTest ==
    << Await("daytona.create", "create"),
       LogOf("success", "Created sandbox with ID:"),
       Await("sandbox.fs.listFiles", "none"),
       LogOf("info", "Initial files:"),
       Await("sandbox.fs.createFolder", "none"),
       Log("success", "Created directory:"),
       Await("import", "none"),
       Await("fs.promises.writeFile", "none"),
       Await("sandbox.fs.uploadFiles", "none"),
       AwaitCaught("fs.promises.unlink"),
       Await("fs.promises.writeFile", "none"),
       Await("sandbox.fs.uploadFiles", "none"),
       AwaitCaught("fs.promises.unlink"),
       Await("fs.promises.writeFile", "none"),
       Await("sandbox.fs.uploadFiles", "none"),
       AwaitCaught("fs.promises.unlink"),
       Log("success", "Uploaded multiple files"),
       Await("sandbox.process.executeCommand", "none"),
       LogOf("info", "Files in directory:"),
       Await("sandbox.process.executeCommand", "none"),
       Await("sandbox.process.executeCommand", "none"),
       LogOf("success", "Script output:"),
       Await("sandbox.fs.searchFiles", "none"),
       LogOf("info", "JSON files found:"),
       Await("sandbox.fs.replaceInFiles", "none"),
       Await("sandbox.fs.downloadFile", "none"),
       LogOf("success", "Updated config:"),
       Await("sandbox.fs.uploadFile", "none"),
       Log("success", "Created and saved report"),
       Await("daytona.delete", "delete"),
       Log("info", "Sandbox cleaned up") >>

\* the body that runExecCommandTest passes to runTestWithErrorHandling (bun)
Bun_runExecCommandTest ==
    << Await("daytona.create", "create"),
       Log("info", "Running basic execution tests..."),
       Then(Await("sandbox.process.codeRun", "none"), {1, 2}),
       Then(LogOf("error", "Error running code:"), {2}),
       LogOf("success", "Code result:"),
       Then(Await("sandbox.process.executeCommand", "none"), {1, 2}),
       Then(LogOf("error", "Error running command:"), {2}),
       LogOf("success", "Command result:"),
       Log("info", "Running session execution tests..."),
       Await("sandbox.process.createSession", "none"),
       Log("success", "Created session: bun-exec-session-1"),
       Await("sandbox.process.executeSessionCommand", "none"),
       Await("sandbox.process.executeSessionCommand", "none"),
       LogOf("success", "BUN_ENV="),
       Await("sandbox.process.executeSessionCommand", "none"),
       LogOf("info", "Bun performance:"),
       Await("sandbox.process.deleteSession", "none"),
       Log("success", "Deleted session: bun-exec-session-1"),
       Await("daytona.delete", "delete"),
       Log("info", "Sandbox cleaned up") >>

\* the body that runDeclarativeImageTest passes to runTestWithErrorHandling (bun)
Bun_runDeclarativeImageTest ==
    << Log("info", "Creating snapshot with name:"),
       Sync("Image.debianSlim"),
       Log("info", "Creating Snapshot:"),
       AwaitLogging("daytona.snapshot.create", "snapshot", "info", "Snapshot:"),
       Log("info", "Creating Sandbox from Pre-built Snapshot"),
       Await("daytona.create", "create"),
       Log("info", "Verifying sandbox from pre-built image:"),
       Await("sandbox.process.executeCommand", "none"),
       LogOf("success", "Bun environment:"),
       Await("sandbox.process.executeCommand", "none"),
       LogOf("info", "Bun startup performance:"),
       Await("daytona.delete", "delete"),
       Log("info", "Cleaned up sandbox") >>

\* the body that runGitLspTest passes to runTestWithErrorHandling (bun)
Bun_runGitLspTest ==
    << Await("daytona.create", "create"),
       Await("sandbox.git.clone", "none"),
       Log("success", "Repository cloned successfully"),
       Await("sandbox.fs.findFiles", "none"),
       Then(LogOf("info", "Matches found:"), {1, 14}),
       Await("sandbox.createLspServer", "none"),
       Await("lsp.start", "none"),
       Log("success", "Language server started"),
       Await("lsp.didOpen", "none"),
       LogOf("info", "Opened file:"),
       Await("lsp.documentSymbols", "none"),
       LogOf("info", "Symbols:"),
       Await("sandbox.fs.replaceInFiles", "none"),
       Log("success", "Fixed error in document"),
       Await("lsp.didClose", "none"),
       Await("lsp.didOpen", "none"),
       Await("lsp.completions", "none"),
       LogOf("info", "Completions:"),
       Await("daytona.delete", "delete"),
       Log("info", "Sandbox cleaned up") >>

\* the body that runAutoDeleteTest passes to runTestWithErrorHandling (bun)
Bun_runAutoDeleteTest ==
    << Await("daytona.create", "create"),
       LogOf("info", "Default auto-delete interval:"),
       Await("sandbox1.setAutoDeleteInterval", "none"),
       LogOf("success", "Auto-delete set to 1 hour:"),
       Await("sandbox1.setAutoDeleteInterval", "none"),
       LogOf("success", "Auto-delete immediate:"),
       Await("sandbox1.setAutoDeleteInterval", "none"),
       LogOf("success", "Auto-delete disabled:"),
       Await("daytona.create", "create"),
       LogOf("success", "Sandbox2 auto-delete (1 day):"),
       Await("sandbox1.delete", "delete"),
       Await("sandbox2.delete", "delete"),
       Log("info", "Cleaned up sandboxes") >>

\* the body that runChartsTest passes to runTestWithErrorHandling (bun)
Bun_runChartsTest ==
    << Await("daytona.create", "create"),
       Then(Await("sandbox.process.codeRun", "none"), {1, 3}),
       LogOf("error", "Execution failed with exit code"),
       Then(LogOf("error", "Output:"), {4}),
       Then(Log("success", "Chart execution successful"), {1, 3}),
       Then(Bounded(LogOf("success", "Generated chart:")), {0, 1, 2}),
       Then(LogOf("info", "Chart has image data ("), {-1, 1}),
       Await("daytona.delete", "delete"),
       Log("info", "Sandbox cleaned up") >>

\* the body that runAutoArchiveTest passes to runTestWithErrorHandling (bun)
Bun_runAutoArchiveTest ==
    << Await("daytona.create", "create"),
       LogOf("info", "Default auto-archive interval:"),
       Await("sandbox1.setAutoArchiveInterval", "none"),
       LogOf("success", "Auto-archive set to 1 hour:"),
       Await("daytona.create", "create"),
       LogOf("success", "Sandbox2 auto-archive (max):"),
       Await("daytona.create", "create"),
       LogOf("success", "Sandbox3 auto-archive (1 day):"),
       Await("sandbox1.delete", "delete"),
       Await("sandbox2.delete", "delete"),
       Await("sandbox3.delete", "delete"),
       Log("info", "Cleaned up all sandboxes") >>

\* the body that runBunPerformanceTest passes to runTestWithErrorHandling (bun)
Bun_runBunPerformanceTest ==
    << Await("daytona.create", "create"),
       Log("info", "Testing Bun performance features..."),
       Await("sandbox.process.codeRun", "none"),
       LogOf("success", "File I/O performance:"),
       Await("sandbox.process.codeRun", "none"),
       LogOf("success", "HTTP performance:"),
       Await("daytona.delete", "delete"),
       Log("info", "Sandbox cleaned up") >>

\* the body that runVolumesTest passes to runTestWithErrorHandling (browser)
Browser_runVolumesTest ==
    << Await("daytona.volume.get", "volume"),
       Log("info", "Created/Retrieved volume: my-volume"),
       Await("daytona.create", "create"),
       Log("success", "Created sandbox1 with volume mounted at"),
       Await("sandbox1.fs.createFolder", "none"),
       Log("info", "Created directory:"),
       Await("sandbox1.fs.uploadFile", "none"),
       Log("info", "Created file:"),
       Await("daytona.create", "create"),
       Log("success", "Created sandbox2 with volume mounted at"),
       Await("sandbox2.fs.listFiles", "none"),
       LogOf("info", "Files in"),
       Await("sandbox1.fs.downloadFile", "none"),
       LogOf("success", "File content:"),
       Await("daytona.delete", "delete"),
       Await("daytona.delete", "delete"),
       Log("info", "Cleaned up sandboxes") >>

\* the body that runLifecycleTest passes to runTestWithErrorHandling (browser)
Browser_runLifecycleTest ==
    << Log("info", "Creating sandbox"),
       Await("daytona.create", "create"),
       Log("success", "Sandbox created"),
       Await("sandbox.setLabels", "none"),
       Log("info", "Set labels on sandbox"),
       Log("info", "Stopping sandbox"),
       Await("sandbox.stop", "none"),
       Log("success", "Sandbox stopped"),
       Log("info", "Starting sandbox"),
       Await("sandbox.start", "none"),
       Log("success", "Sandbox started"),
       Log("info", "Getting existing sandbox"),
       Await("daytona.get", "none"),
       Log("success", "Got existing sandbox"),
       Then(Await("existingSandbox.process.executeCommand", "none"), {1, 2}),
       Then(LogOf("error", "Command error:"), {2}),
       LogOf("success", "Command result:"),
       Await("daytona.list", "none"),
       LogOf("info", "Total sandboxes count:"),
       LogOf("info", "Sandbox info -> id:"),
       Log("info", "Deleting sandbox"),
       Await("sandbox.delete", "delete"),
       Log("success", "Sandbox deleted") >>

\* the body that runGitLspTest passes to runTestWithErrorHandling (browser)
Browser_runGitLspTest ==
    << Await("daytona.create", "create"),
       Await("sandbox.git.clone", "none"),
       Log("success", "Repository cloned successfully"),
       Await("sandbox.fs.findFiles", "none"),
       Then(LogOf("info", "Matches found:"), {1, 14}),
       Await("sandbox.createLspServer", "none"),
       Await("lsp.start", "none"),
       Log("success", "Language server started"),
       Await("lsp.didOpen", "none"),
       LogOf("info", "Opened file:"),
       Await("lsp.documentSymbols", "none"),
       LogOf("info", "Symbols:"),
       Await("sandbox.fs.replaceInFiles", "none"),
       Log("success", "Fixed error in document"),
       Await("lsp.didClose", "none"),
       Await("lsp.didOpen", "none"),
       Await("lsp.completions", "none"),
       LogOf("info", "Completions:"),
       Await("daytona.delete", "delete"),
       Log("info", "Sandbox cleaned up") >>

\* the body that runFileOperationsTest passes to runTestWithErrorHandling (browser)
Browser_runFileOperationsTest ==
    << Await("daytona.create", "create"),
       LogOf("success", "Created sandbox with ID:"),
       Await("sandbox.fs.listFiles", "none"),
       LogOf("info", "Initial files:"),
       Await("sandbox.fs.createFolder", "none"),
       Log("success", "Created directory:"),
       Await("sandbox.fs.uploadFiles", "none"),
       Log("success", "Uploaded multiple files"),
       Await("sandbox.process.executeCommand", "none"),
       LogOf("info", "Files in directory:"),
       Await("sandbox.process.executeCommand", "none"),
       Await("sandbox.process.executeCommand", "none"),
       LogOf("success", "Script output:"),
       Await("sandbox.fs.searchFiles", "none"),
       LogOf("info", "JSON files found:"),
       Await("sandbox.fs.replaceInFiles", "none"),
       Await("sandbox.fs.downloadFile", "none"),
       LogOf("success", "Updated config:"),
       Await("sandbox.fs.uploadFile", "none"),
       Log("success", "Created and saved report"),
       Await("daytona.delete", "delete"),
       Log("info", "Sandbox cleaned up") >>

\* the body that runExecCommandTest passes to runTestWithErrorHandling (browser)
Browser_runExecCommandTest ==
    << Await("daytona.create", "create"),
       Log("info", "Running basic execution tests..."),
       Then(Await("sandbox.process.codeRun", "none"), {1, 2}),
       Then(LogOf("error", "Error running code:"), {2}),
       LogOf("success", "Code result:"),
       Then(Await("sandbox.process.executeCommand", "none"), {1, 2}),
       Then(LogOf("error", "Error running command:"), {2}),
       LogOf("success", "Command result:"),
       Log("info", "Running session execution tests..."),
       Await("sandbox.process.createSession", "none"),
       Log("success", "Created session: exec-session-1"),
       Await("sandbox.process.getSession", "none"),
       LogOf("info", "Session details:"),
       Await("sandbox.process.executeSessionCommand", "none"),
       Await("sandbox.process.getSession", "none"),
       LogOf("info", "Session updated:"),
       Await("sandbox.process.getSessionCommand", "none"),
       LogOf("info", "Session command:"),
       Await("sandbox.process.executeSessionCommand", "none"),
       LogOf("success", "FOO="),
       Await("sandbox.process.getSessionCommandLogs", "none"),
       LogOf("info", "Command logs:"),
       Await("sandbox.process.deleteSession", "none"),
       Log("success", "Deleted session: exec-session-1"),
       Log("info", "Testing async command execution..."),
       Await("sandbox.process.createSession", "none"),
       Log("success", "Created async session:"),
       Await("sandbox.process.executeSessionCommand", "none"),
       Log("info", "Started long-running command, streaming logs..."),
       AwaitLogging("sandbox.process.getSessionCommandLogs", "none", "success", "Log chunk:"),
       Log("success", "Finished streaming logs"),
       Await("daytona.delete", "delete"),
       Log("info", "Sandbox cleaned up") >>

\* the body that runDeclarativeImageTest passes to runTestWithErrorHandling (browser)
Browser_runDeclarativeImageTest ==
    << Log("info", "Creating snapshot with name:"),
       Sync("Image.debianSlim"),
       Log("info", "Creating Snapshot:"),
       AwaitLogging("daytona.snapshot.create", "snapshot", "info", "Snapshot:"),
       Log("info", "Creating Sandbox from Pre-built Snapshot"),
       Await("daytona.create", "create"),
       Log("info", "Verifying sandbox from pre-built image:"),
       Await("sandbox1.process.executeCommand", "none"),
       LogOf("success", "Python environment:"),
       Await("daytona.delete", "delete"),
       Log("info", "Creating Sandbox with Dynamic Image"),
       Sync("Image.debianSlim"),
       AwaitLogging("daytona.create", "create", "info", "Snapshot:"),
       Log("info", "Verifying sandbox with dynamic image:"),
       Await("sandbox2.process.executeCommand", "none"),
       LogOf("success", "Development tools:"),
       Await("daytona.delete", "delete"),
       Log("info", "Cleaned up sandboxes") >>

\* the body that runAutoDeleteTest passes to runTestWithErrorHandling (browser)
Browser_runAutoDeleteTest ==
    << Await("daytona.create", "create"),
       LogOf("info", "Default auto-delete interval:"),
       Await("sandbox1.setAutoDeleteInterval", "none"),
       LogOf("success", "Auto-delete set to 1 hour:"),
       Await("sandbox1.setAutoDeleteInterval", "none"),
       LogOf("success", "Auto-delete immediate:"),
       Await("sandbox1.setAutoDeleteInterval", "none"),
       LogOf("success", "Auto-delete disabled:"),
       Await("daytona.create", "create"),
       LogOf("success", "Sandbox2 auto-delete (1 day):"),
       Await("sandbox1.delete", "delete"),
       Await("sandbox2.delete", "delete"),
       Log("info", "Cleaned up sandboxes") >>

\* the body that runChartsTest passes to runTestWithErrorHandling (browser)
Browser_runChartsTest ==
    << Await("daytona.create", "create"),
       Then(Await("sandbox.process.codeRun", "none"), {1, 3}),
       LogOf("error", "Execution failed with exit code"),
       Then(LogOf("error", "Output:"), {4}),
       Then(Log("success", "Chart execution successful"), {1, 3}),
       Then(Bounded(LogOf("success", "Generated chart:")), {0, 1, 2}),
       Then(LogOf("info", "Chart has image data ("), {-1, 1}),
       Await("daytona.delete", "delete"),
       Log("info", "Sandbox cleaned up") >>

\* the body that runAutoArchiveTest passes to runTestWithErrorHandling (browser)
Browser_runAutoArchiveTest ==
    << Await("daytona.create", "create"),
       LogOf("info", "Default auto-archive interval:"),
       Await("sandbox1.setAutoArchiveInterval", "none"),
       LogOf("success", "Auto-archive set to 1 hour:"),
       Await("daytona.create", "create"),
       LogOf("success", "Sandbox2 auto-archive (max):"),
       Await("daytona.create", "create"),
       LogOf("success", "Sandbox3 auto-archive (1 day):"),
       Await("sandbox1.delete", "delete"),
       Await("sandbox2.delete", "delete"),
       Await("sandbox3.delete", "delete"),
       Log("info", "Cleaned up all sandboxes") >>

DenoBodies ==
    << Deno_runVolumesTest,
       Deno_runLifecycleTest,
       Deno_runFileOperationsTest,
       Deno_runExecCommandTest,
       Deno_runDeclarativeImageTest,
       Deno_runGitLspTest,
       Deno_runAutoDeleteTest,
       Deno_runChartsTest,
       Deno_runAutoArchiveTest,
       Deno_runDenoPerformanceTest >>

BunBodies ==
    << Bun_runVolumesTest,
       Bun_runLifecycleTest,
       Bun_runFileOperationsTest,
       Bun_runExecCommandTest,
       Bun_runDeclarativeImageTest,
       Bun_runGitLspTest,
       Bun_runAutoDeleteTest,
       Bun_runChartsTest,
       Bun_runAutoArchiveTest,
       Bun_runBunPerformanceTest >>

BrowserBodies ==
    << Browser_runVolumesTest,
       Browser_runLifecycleTest,
       Browser_runGitLspTest,
       Browser_runFileOperationsTest,
       Browser_runExecCommandTest,
       Browser_runDeclarativeImageTest,
       Browser_runAutoDeleteTest,
       Browser_runChartsTest,
       Browser_runAutoArchiveTest >>
Terminal == {"success", "error"}

\* ------------------------------------------------------ logger / tracker
LogEntry(type, message, category) ==
    [type |-> type, message |-> message, category |-> category]

\* mutation of pushLog: assignment instead of push
pushLog_replace(prev, logEntry) == <<logEntry>>

\* mutation of pushLog: that puts the new entry in front
pushLog_prepend(prev, logEntry) == <<logEntry>> \o prev

\* this.logs.push(logEntry) / setLogs((prev) => [...prev, logEntry])
pushLog(prev, logEntry) == Append(prev, logEntry)

\* mutation of addLogResults: general entries are copied into every test
addLogResults_general(prev, logEntry) ==
    [i \in DOMAIN prev |->
        IF prev[i].name = logEntry.category \/ logEntry.category = "general"
        THEN [prev[i] EXCEPT !.logs = Append(@, logEntry)]
        ELSE prev[i]]

\* mutation of addLogResults: without the name filter
addLogResults_all(prev, logEntry) ==
    [i \in DOMAIN prev |-> [prev[i] EXCEPT !.logs = Append(@, logEntry)]]

\* testResults.map(test => test.name === category ? {...test, logs: [...]} : test)
addLogResults(prev, logEntry) ==
    [i \in DOMAIN prev |->
        IF prev[i].name = logEntry.category
        THEN [prev[i] EXCEPT !.logs = Append(@, logEntry)]
        ELSE prev[i]]

\* mutation of updateTestStatus: filter instead of map, dropping the other tests
updateTestStatus_filter(prev, testName, status) ==
    LET kept == SelectSeq(prev, LAMBDA t : t.name = testName) IN
    [i \in DOMAIN kept |-> [kept[i] EXCEPT !.status = status]]

\* mutation of updateTestStatus: rebuilds the record with empty logs
updateTestStatus_resetLogs(prev, testName, status) ==
    [i \in DOMAIN prev |->
        IF prev[i].name = testName
        THEN [name |-> prev[i].name, status |-> status, logs |-> <<>>]
        ELSE prev[i]]

\* mutation of updateTestStatus: without the name filter
updateTestStatus_all(prev, testName, status) ==
    [i \in DOMAIN prev |-> [prev[i] EXCEPT !.status = status]]

\* testResults.map(test => test.name === testName ? {...test, status} : test)
updateTestStatus(prev, testName, status) ==
    [i \in DOMAIN prev |->
        IF prev[i].name = testName
        THEN [prev[i] EXCEPT !.status = status]
        ELSE prev[i]]

\* tests.map(name => ({name, status: 'pending', logs: []}))
initialResults(names) ==
    [i \in DOMAIN names |-> [name |-> names[i], status |-> "pending", logs |-> <<>>]]

successful(tr) == Cardinality({i \in DOMAIN tr : tr[i].status = "success"})

\* mutation of failed: that counts every test that left pending
failed_nonPending(tr) == Cardinality({i \in DOMAIN tr : tr[i].status # "pending"})

failed(tr) == Cardinality({i \in DOMAIN tr : tr[i].status = "error"})

total(tr) == Len(tr)

NoSummary == [printed |-> 0, successful |-> 0, failed |-> 0, total |-> 0]

printSummary(tr, old) ==
    [printed |-> old.printed + 1,
     successful |-> successful(tr),
     failed |-> failed(tr),
     total |-> total(tr)]

NoCall == [op |-> "none", arg |-> "", val |-> ""]

\* the effect of one addLog(message, type, category) call on the state
addLog(message, type, category) ==
    LET logEntry == LogEntry(type, message, category) IN
    /\ logs' = pushLog(logs, logEntry)
    /\ testResults' = addLogResults(testResults, logEntry)
    /\ call' = [op |-> "addLog", arg |-> category, val |-> type]

\* the effect of one updateTestStatus(testName, status) call on the state
setStatus(testName, status) ==
    /\ testResults' = updateTestStatus(testResults, testName, status)
    /\ call' = [op |-> "updateTestStatus", arg |-> testName, val |-> status]


\* ------------------------------------------------------------ suite driver
NoOutcome == [i \in 1..NumTests |-> "none"]

NoResources == [i \in 1..NumTests |-> {}]

\* useState initial values, with no state update queued
NoReact == [logs |-> <<>>, testResults |-> <<>>, queue |-> <<>>]

Bodies(v) ==
    IF v = "deno" THEN DenoBodies
    ELSE IF v = "bun" THEN BunBodies
    ELSE BrowserBodies

\* ------------------------------------------------------ the remote account
Kinds == {"sandbox", "volume", "snapshot"}

Nothing == [sandbox |-> 0, volume |-> 0, snapshot |-> 0]

NoOwn == [i \in 1..NumTests |-> Nothing]

kinds(o) == {k \in Kinds : o[k] > 0}

\* what exists on the account for each test: what earlier runs left behind
\* and what this run provisioned and has not deleted
alive(lk, ow) == [i \in 1..NumTests |-> lk[i] \cup kinds(ow[i])]

\* what an awaited call that resolved has done to the resources of its test:
\* daytona.create adds a sandbox, daytona.delete / sandbox.delete removes one,
\* snapshot.create adds the snapshot, and volume.get(name, true) creates the
\* volume when the account does not have it
resolved(effect, o, exists) ==
    IF effect = "create" THEN {[o EXCEPT !.sandbox = @ + 1]}
    ELSE IF effect = "delete" THEN {[o EXCEPT !.sandbox = IF @ > 0 THEN @ - 1 ELSE 0]}
    ELSE IF effect = "snapshot" THEN {[o EXCEPT !.snapshot = 1]}
    ELSE IF effect = "volume" THEN {[o EXCEPT !.volume = IF exists THEN @ ELSE 1]}
    ELSE {o}

\* ------------------------------------------------------- running a body
\* the messages of a body that one run can log several times
Repeated(b) == {b[k].message : k \in {j \in DOMAIN b : b[j].cb \/ b[j].bounded}}

repeats(b, lg) == Cardinality({k \in DOMAIN lg : lg[k].message \in Repeated(b)})

\* the statements control can reach from statement k
after(b, k, used) ==
    {j \in {k + d : d \in b[k].next} :
        (j \in DOMAIN b /\ b[j].bounded) => used < MaxRepeat}

\* a statement that can throw or reject to the wrapper
canThrow(s) ==
    \/ s.kind = "call" /\ ~s.caught
    \/ s.kind = "sync"
    \/ s.kind = "log" /\ s.reads

thisBody == Bodies(variant)[idx]

volumeExists == \E i \in 1..NumTests : "volume" \in live[i]

\* the body of the running test stands before one of its statements
atStatement == pc = "body" /\ step \in DOMAIN thisBody

\* how often this run of the body has logged one of its repeated messages
used == repeats(thisBody, testResults[idx].logs)

\* the driver is suspended at an awaited call of a body: the body has made
\* the call and returned to the event loop
AtAwait ==
    \/ pc = "hung"
    \/ atStatement /\ thisBody[step].kind = "call"

acct == <<own, leaked, live>>

Init ==
    /\ variant \in Variants
    /\ suite \in 1..NumTests
    /\ pc = "idle"
    /\ idx = 0
    /\ step = 0
    /\ logs = <<>>
    /\ testResults = <<>>
    /\ currentTest = ""
    /\ isRunning = FALSE
    /\ setup = "none"
    /\ thrown = "none"
    /\ outcome = NoOutcome
    /\ summary = NoSummary
    /\ own = NoOwn
    /\ leaked = NoResources
    /\ live = NoResources
    /\ react = NoReact
    /\ call = NoCall

\* where control goes when the try block of the driver is left
finallyPc(v) == IF v = "browser" THEN "setNotRunning" ELSE "logCompleted"

\* where control goes when the wrapper of the i-th dispatched test returns
afterTest(v, i) == IF i < Len(dispatched(v)) THEN "dispatch" ELSE finallyPc(v)

\* mutation of RunAllTestsInit: results of an earlier run are kept
RunAllTestsInit_keep ==
    /\ IF variant = "browser"
       THEN pc \in {"idle", "done"} /\ ~isRunning /\ (pc = "done" => suite <= RerunTests)
       ELSE pc = "idle"
    /\ isRunning' = (variant = "browser")
    /\ logs' = IF variant = "browser" THEN <<>> ELSE logs
    /\ testResults' = IF testResults = <<>> THEN initialResults(tests(variant))
                                             ELSE testResults
    /\ call' = [op |-> "initialize", arg |-> "", val |-> ""]
    /\ pc' = "logStart"
    /\ idx' = 0
    /\ step' = 0
    /\ setup' = "none"
    /\ thrown' = "none"
    /\ outcome' = NoOutcome
    /\ own' = NoOwn
    /\ leaked' = live
    /\ UNCHANGED <<variant, suite, react, live, currentTest, summary>>

\* runAllTests / runAllDaytonaTests up to the initialisation of testResults.
\* The browser's function can be called again when a run is over; what the
\* earlier runs left on the account is still there.
RunAllTestsInit ==
    /\ IF variant = "browser"
       THEN pc \in {"idle", "done"} /\ ~isRunning /\ (pc = "done" => suite <= RerunTests)
       ELSE pc = "idle"
    /\ isRunning' = (variant = "browser")
    /\ logs' = IF variant = "browser" THEN <<>> ELSE logs
    /\ testResults' = initialResults(tests(variant))
    /\ call' = [op |-> "initialize", arg |-> "", val |-> ""]
    /\ pc' = "logStart"
    /\ idx' = 0
    /\ step' = 0
    /\ setup' = "none"
    /\ thrown' = "none"
    /\ outcome' = NoOutcome
    /\ own' = NoOwn
    /\ leaked' = live
    /\ UNCHANGED <<variant, suite, react, live, currentTest, summary>>

\* mutation of RunAllTestsIgnored: without the isRunning guard the run restarts
RunAllTestsIgnored_noGuard ==
    /\ variant = "browser"
    /\ AtAwait
    /\ isRunning
    /\ logs' = <<>>
    /\ testResults' = initialResults(tests(variant))
    /\ call' = [op |-> "runAllDaytonaTests", arg |-> "", val |-> "ignored"]
    /\ UNCHANGED <<variant, suite, react, acct, pc, idx, step, currentTest, isRunning,
                   setup, thrown, outcome, summary>>

\* runAllDaytonaTests invoked while a run is active: if (isRunning) return.
\* Another handler can only run while the driver is suspended at an awaited
\* SDK call of a body, and it can at every such call; the statements between
\* two awaits run to completion.
RunAllTestsIgnored ==
    /\ variant = "browser"
    /\ AtAwait
    /\ isRunning
    /\ call' = [op |-> "runAllDaytonaTests", arg |-> "", val |-> "ignored"]
    /\ UNCHANGED <<variant, suite, react, acct, pc, idx, step, logs, testResults,
                   currentTest, isRunning, setup, thrown, outcome, summary>>

LogSuiteStart ==
    /\ pc = "logStart"
    /\ addLog("Starting comprehensive Daytona SDK tests", "info", "general")
    /\ pc' = "setup"
    /\ UNCHANGED <<variant, suite, react, acct, idx, step, currentTest, isRunning, setup,
                   thrown, outcome, summary>>

\* the one-time setup inside the try block: the API-key check of the Deno and
\* Bun scripts, then the client constructor
setupOutcome(v, apiKey, ctorThrows) ==
    IF v # "browser" /\ ~apiKey THEN "nokey"
    ELSE IF ctorThrows THEN "ctor"
    ELSE "ok"

\* the value that a failed setup throws: the Error of the API-key check, or
\* whatever the constructor threw
setupThrows(s, value) ==
    IF s = "nokey" THEN "string"
    ELSE IF s = "ctor" THEN value
    ELSE "none"

\* mutation of Setup: in which a missing API key does not abort the run
Setup_noAbort ==
    /\ pc = "setup"
    /\ \E apiKey \in BOOLEAN, ctorThrows \in BOOLEAN, value \in {"string", "opaque"} :
          /\ setup' = setupOutcome(variant, apiKey, ctorThrows)
          /\ thrown' = IF setup' = "nokey" THEN "none" ELSE setupThrows(setup', value)
    /\ pc' = IF setup' \in {"ok", "nokey"} THEN "logCreated" ELSE "mainCatch"
    /\ call' = [op |-> "setup", arg |-> "", val |-> setup']
    /\ UNCHANGED <<variant, suite, react, acct, idx, step, logs, testResults, currentTest,
                   isRunning, outcome, summary>>

Setup ==
    /\ pc = "setup"
    /\ \E apiKey \in BOOLEAN, ctorThrows \in BOOLEAN, value \in {"string", "opaque"} :
          /\ setup' = setupOutcome(variant, apiKey, ctorThrows)
          /\ thrown' = setupThrows(setup', value)
    /\ pc' = IF setup' = "ok" THEN "logCreated" ELSE "mainCatch"
    /\ call' = [op |-> "setup", arg |-> "", val |-> setup']
    /\ UNCHANGED <<variant, suite, react, acct, idx, step, logs, testResults, currentTest,
                   isRunning, outcome, summary>>

LogCreated ==
    /\ pc = "logCreated"
    /\ addLog("Created Daytona instance", "success", "general")
    /\ pc' = afterTest(variant, 0)
    /\ UNCHANGED <<variant, suite, react, acct, idx, step, currentTest, isRunning, setup,
                   thrown, outcome, summary>>

\* ----------------------------------------------- runTestWithErrorHandling
\* mutation of StartTest: that never marks the test as running
StartTest_skipRunning ==
    /\ pc = "dispatch"
    /\ idx' = idx + 1
    /\ currentTest' = dispatched(variant)[idx']
    /\ call' = [op |-> "updateTestStatus", arg |-> "", val |-> ""]
    /\ pc' = "logStarting"
    /\ UNCHANGED <<variant, suite, react, acct, step, logs, testResults, isRunning, setup,
                   thrown, outcome, summary>>

StartTest ==
    /\ pc = "dispatch"
    /\ idx' = idx + 1
    /\ currentTest' = dispatched(variant)[idx']
    /\ setStatus(dispatched(variant)[idx'], "running")
    /\ pc' = "logStarting"
    /\ UNCHANGED <<variant, suite, react, acct, step, logs, isRunning, setup, thrown,
                   outcome, summary>>

LogStarting ==
    /\ pc = "logStarting"
    /\ addLog("Starting", "info", dispatched(variant)[idx])
    /\ step' = 1
    /\ pc' = "body"
    /\ UNCHANGED <<variant, suite, react, acct, idx, currentTest, isRunning, setup, thrown,
                   outcome, summary>>

\* the statement the body stands before is an SDK call that returns: an
\* awaited call resolves (or rejects into a try/catch of the body) and the
\* body resumes, or a synchronous call returns
BodyStep ==
    /\ atStatement
    /\ thisBody[step].kind \in {"call", "sync"}
    /\ \E r \in resolved(thisBody[step].effect, own[idx], volumeExists) :
          /\ own' = [own EXCEPT ![idx] = r]
          /\ live' = alive(leaked, own')
    /\ step' \in after(thisBody, step, used)
    /\ call' = [op |-> "returned", arg |-> thisBody[step].name, val |-> ""]
    /\ UNCHANGED <<variant, suite, react, leaked, pc, idx, logs, testResults,
                   currentTest, isRunning, setup, thrown, outcome, summary>>

\* the body makes the addLog call it stands before, or the SDK invokes the
\* logging callback of the call that is pending, which makes one
BodyLog ==
    /\ pc \in {"body", "hung"}
    /\ step \in DOMAIN thisBody
    /\ \/ /\ pc = "body"
          /\ thisBody[step].kind = "log"
          /\ step' \in after(thisBody, step,
                              used + (IF thisBody[step].bounded THEN 1 ELSE 0))
       \/ /\ thisBody[step].kind = "call"
          /\ thisBody[step].cb
          /\ used < MaxRepeat
          /\ step' = step
    /\ addLog(thisBody[step].message, thisBody[step].type, BodyCategories(variant)[idx])
    /\ UNCHANGED <<variant, suite, react, acct, pc, idx, currentTest, isRunning, setup,
                   thrown, outcome, summary>>

\* the awaited SDK call that is pending never settles: the wrapper stays
\* suspended at await testFn(), and nothing in the harness cancels or times out
BodyHang ==
    /\ atStatement
    /\ thisBody[step].kind = "call"
    /\ pc' = "hung"
    /\ call' = [op |-> "hang", arg |-> dispatched(variant)[idx], val |-> ""]
    /\ UNCHANGED <<variant, suite, react, acct, idx, step, logs, testResults,
                   currentTest, isRunning, setup, thrown, outcome, summary>>

\* mutation of TestResolved: that leaves the status untouched
TestResolved_noStatus ==
    /\ pc = "body"
    /\ step = Len(thisBody) + 1
    /\ outcome' = [outcome EXCEPT ![idx] = "resolved"]
    /\ call' = [op |-> "updateTestStatus", arg |-> "", val |-> ""]
    /\ pc' = "logSuccess"
    /\ UNCHANGED <<variant, suite, react, acct, idx, step, logs, testResults,
                   currentTest, isRunning, setup, thrown, summary>>

\* mutation of TestResolved: a body that logged an error-level entry is failed
TestResolved_errorOnLog ==
    /\ pc = "body"
    /\ step = Len(thisBody) + 1
    /\ outcome' = [outcome EXCEPT ![idx] = "resolved"]
    /\ setStatus(dispatched(variant)[idx],
                 IF \E k \in DOMAIN testResults[idx].logs :
                        testResults[idx].logs[k].type = "error"
                 THEN "error" ELSE "success")
    /\ pc' = "logSuccess"
    /\ UNCHANGED <<variant, suite, react, acct, idx, step, logs, currentTest,
                   isRunning, setup, thrown, summary>>

\* the body has run to its end, await testFn() returns: the try branch sets
\* the status
TestResolved ==
    /\ pc = "body"
    /\ step = Len(thisBody) + 1
    /\ outcome' = [outcome EXCEPT ![idx] = "resolved"]
    /\ setStatus(dispatched(variant)[idx], "success")
    /\ pc' = "logSuccess"
    /\ UNCHANGED <<variant, suite, react, acct, idx, step, logs, currentTest,
                   isRunning, setup, thrown, summary>>

LogSuccess ==
    /\ pc = "logSuccess"
    /\ addLog("completed successfully", "success", dispatched(variant)[idx])
    /\ pc' = afterTest(variant, idx)
    /\ UNCHANGED <<variant, suite, react, acct, idx, step, currentTest, isRunning, setup,
                   thrown, outcome, summary>>

\* mutation of TestRejected: a timeout also rejects a call that never settles
TestRejected_timeout ==
    /\ pc \in {"body", "hung"}
    /\ step \in DOMAIN thisBody
    /\ canThrow(thisBody[step])
    /\ thrown' \in {"string", "opaque"}
    /\ outcome' = [outcome EXCEPT ![idx] = "rejected"]
    /\ setStatus(dispatched(variant)[idx], "error")
    /\ pc' = "logError"
    /\ UNCHANGED <<variant, suite, react, acct, idx, step, logs, currentTest,
                   isRunning, setup, summary>>

\* the statement the body stands before throws, or the call that is pending
\* rejects: the catch branch of the wrapper sets the status
TestRejected ==
    /\ atStatement
    /\ canThrow(thisBody[step])
    /\ thrown' \in {"string", "opaque"}
    /\ outcome' = [outcome EXCEPT ![idx] = "rejected"]
    /\ setStatus(dispatched(variant)[idx], "error")
    /\ pc' = "logError"
    /\ UNCHANGED <<variant, suite, react, acct, idx, step, logs, currentTest,
                   isRunning, setup, summary>>

\* the rest of the catch branch: the message is built from the value caught,
\* then logged.  When the value cannot be converted to a string, building
\* the message throws and the wrapper rejects to the driver.
LogError ==
    /\ pc = "logError"
    /\ IF thrown = "string"
       THEN /\ addLog("Error in test", "error", dispatched(variant)[idx])
            /\ thrown' = "none"
            /\ pc' = afterTest(variant, idx)
       ELSE /\ thrown' \in {"string", "opaque"}
            /\ call' = [op |-> "throw", arg |-> dispatched(variant)[idx], val |-> thrown']
            /\ pc' = "mainCatch"
            /\ UNCHANGED <<logs, testResults>>
    /\ UNCHANGED <<variant, suite, react, acct, idx, step, currentTest, isRunning, setup,
                   outcome, summary>>

\* the catch block of the driver: the message is built from the value
\* caught, then logged.  When the value cannot be converted to a string,
\* building the message throws: nothing is logged, the finally block runs
\* and the driver rejects to its caller with the value still in flight.
MainCatch ==
    /\ pc = "mainCatch"
    /\ IF thrown = "string"
       THEN /\ addLog("Error in main execution", "error", "general")
            /\ thrown' = "none"
       ELSE /\ call' = [op |-> "throw", arg |-> "", val |-> thrown]
            /\ UNCHANGED <<logs, testResults, thrown>>
    /\ pc' = finallyPc(variant)
    /\ UNCHANGED <<variant, suite, react, acct, idx, step, currentTest, isRunning, setup,
                   outcome, summary>>

SetNotRunning ==
    /\ pc = "setNotRunning"
    /\ isRunning' = FALSE
    /\ call' = [op |-> "setIsRunning", arg |-> "", val |-> "false"]
    /\ pc' = "logCompleted"
    /\ UNCHANGED <<variant, suite, react, acct, idx, step, logs, testResults, currentTest,
                   setup, thrown, outcome, summary>>

\* mutation of LogCompleted: the end of the run resets currentTest
LogCompleted_resetCurrent ==
    /\ pc = "logCompleted"
    /\ addLog("All Daytona SDK tests completed", "info", "general")
    /\ pc' = IF variant = "browser" THEN "done" ELSE "summary"
    /\ currentTest' = ""
    /\ UNCHANGED <<variant, suite, react, acct, idx, step, isRunning, setup, thrown,
                   outcome, summary>>

LogCompleted ==
    /\ pc = "logCompleted"
    /\ addLog("All Daytona SDK tests completed", "info", "general")
    /\ pc' = IF variant = "browser" THEN "done" ELSE "summary"
    /\ UNCHANGED <<variant, suite, react, acct, idx, step, currentTest, isRunning, setup,
                   thrown, outcome, summary>>

PrintSummary ==
    /\ pc = "summary"
    /\ summary' = printSummary(testResults, summary)
    /\ call' = [op |-> "printSummary", arg |-> "", val |-> ""]
    /\ pc' = "done"
    /\ UNCHANGED <<variant, suite, react, acct, idx, step, logs, testResults, currentTest,
                   isRunning, setup, thrown, outcome>>

\* mutation of emptyLogs: only the global log is emptied
emptyLogs_logsOnly ==
    /\ logs' = <<>>
    /\ testResults' = testResults
    /\ call' = [op |-> "clearLogs", arg |-> "", val |-> ""]

\* the effect of one clearLogs() call on the state: setLogs([]), setTestResults([])
emptyLogs ==
    /\ logs' = <<>>
    /\ testResults' = <<>>
    /\ call' = [op |-> "clearLogs", arg |-> "", val |-> ""]

\* browser only: the CLEAR LOGS button, disabled while a run is active
clearLogs ==
    /\ variant = "browser"
    /\ pc \in {"idle", "done"}
    /\ ~isRunning
    /\ emptyLogs
    /\ UNCHANGED <<variant, suite, react, acct, pc, idx, step, currentTest, isRunning,
                   setup, thrown, outcome, summary>>

Next ==
    \/ RunAllTestsInit
    \/ RunAllTestsIgnored
    \/ LogSuiteStart
    \/ Setup
    \/ LogCreated
    \/ StartTest
    \/ LogStarting
    \/ BodyStep
    \/ BodyLog
    \/ BodyHang
    \/ TestResolved
    \/ LogSuccess
    \/ TestRejected
    \/ LogError
    \/ MainCatch
    \/ SetNotRunning
    \/ LogCompleted
    \/ PrintSummary
    \/ clearLogs

Spec == Init /\ [][Next]_vars

\* the steps the runtime takes by itself once a run has started: a statement
\* that is ready runs, and an awaited call that settles resumes its caller;
\* a logging callback of a pending call is the SDK's to invoke or not
Progress ==
    \/ LogSuiteStart
    \/ Setup
    \/ LogCreated
    \/ StartTest
    \/ LogStarting
    \/ BodyStep
    \/ atStatement /\ thisBody[step].kind = "log" /\ BodyLog
    \/ TestResolved
    \/ LogSuccess
    \/ TestRejected
    \/ LogError
    \/ MainCatch
    \/ SetNotRunning
    \/ LogCompleted
    \/ PrintSummary

\* a run under the scheduling of the JavaScript event loop; starting a run,
\* clearing the logs, a logging callback and an SDK call that never settles
\* are not forced
SpecLive == Init /\ [][Next]_vars /\ WF_vars(Progress)

\* ------------------------------------------- tracker-level specification
\* The logger and the tracker driven directly, from the freshly constructed
\* tester or the freshly mounted component: any sequence of initialize,
\* addLog and updateTestStatus calls, with tracked and untracked names, and
\* in the browser the end of a run and the CLEAR LOGS button.
TrackerNames == SubSeq(DenoTests, 1, 2)

\* addLog calls made on a tracker driven directly
MaxTrackerLogs == 2

TrackerCategories == {TrackerNames[i] : i \in DOMAIN TrackerNames} \cup {"general", "NoSuchTest"}

TrackerTypes == {"info", "success", "error"}

Statuses == {"pending", "running", "success", "error"}

TrackerInit ==
    /\ variant \in Variants
    /\ suite = 1
    /\ pc = "tracker"
    /\ idx = 0
    /\ step = 0
    /\ logs = <<>>
    /\ testResults = <<>>
    /\ currentTest = ""
    /\ isRunning = FALSE
    /\ setup = "none"
    /\ thrown = "none"
    /\ outcome = NoOutcome
    /\ summary = NoSummary
    /\ own = NoOwn
    /\ leaked = NoResources
    /\ live = NoResources
    /\ react = NoReact
    /\ call = NoCall

\* the synchronous block that initialises the tracker: the assignment of
\* testResults in runAllTests; in the browser setIsRunning(true), setLogs([])
\* and setTestResults(...) behind the isRunning guard of runAllDaytonaTests
TrInitialize ==
    /\ variant = "browser" => ~isRunning
    /\ testResults' = initialResults(TrackerNames)
    /\ isRunning' = (variant = "browser")
    /\ logs' = IF variant = "browser" THEN <<>> ELSE logs
    /\ call' = [op |-> "initialize", arg |-> "", val |-> ""]
    /\ UNCHANGED <<variant, suite, react, acct, thrown, pc, idx, step, currentTest,
                   setup, outcome, summary>>

TrAddLog ==
    /\ Len(logs) < MaxTrackerLogs
    /\ \E type \in TrackerTypes, category \in TrackerCategories :
          addLog("message", type, category)
    /\ UNCHANGED <<variant, suite, react, acct, thrown, pc, idx, step, currentTest,
                   isRunning, setup, outcome, summary>>

TrUpdateTestStatus ==
    /\ \E testName \in TrackerCategories, status \in Statuses :
          setStatus(testName, status)
    /\ UNCHANGED <<variant, suite, react, acct, thrown, pc, idx, step, logs,
                   currentTest, isRunning, setup, outcome, summary>>

\* the CLEAR LOGS button, disabled while a run is active
TrClearLogs ==
    /\ variant = "browser"
    /\ ~isRunning
    /\ emptyLogs
    /\ UNCHANGED <<variant, suite, react, acct, thrown, pc, idx, step, currentTest,
                   isRunning, setup, outcome, summary>>

\* the end of a browser run: setIsRunning(false) in the finally block of
\* runAllDaytonaTests, which enables both buttons again
TrSetNotRunning ==
    /\ variant = "browser"
    /\ isRunning
    /\ isRunning' = FALSE
    /\ call' = [op |-> "setIsRunning", arg |-> "", val |-> "false"]
    /\ UNCHANGED <<variant, suite, react, acct, thrown, pc, idx, step, logs,
                   testResults, currentTest, setup, outcome, summary>>

TrackerNext ==
    \/ TrInitialize
    \/ TrAddLog
    \/ TrUpdateTestStatus
    \/ TrSetNotRunning
    \/ TrClearLogs

SpecTracker == TrackerInit /\ [][TrackerNext]_vars

\* ------------------------------------- React tracker and class tracker
\* The same calls applied to both trackers.  The class (logs, testResults)
\* assigns its fields at once.  The component queues every setLogs and
\* setTestResults call; React applies the queue, in call order, to the
\* state of the last render when it renders next.  The end of a run and
\* the CLEAR LOGS button exist in the component only.
MaxQueue == 3

\* the arguments of the compared calls: a tracked and an untracked name
ReactCategories == {TrackerNames[1], "NoSuchTest"}

ReactStatuses == {"running", "error"}

\* the types of the compared addLog calls; neither tracker reads the type
ReactTypes == {"info", "error"}

Update(op, entry, name, status, names) ==
    [op |-> op, entry |-> entry, name |-> name, status |-> status, names |-> names]

NoEntry == LogEntry("", "", "")

\* mutation of applyUpdate: setLogs([...logs, logEntry]) with the rendered value
applyUpdate_stale(st, u) ==
    IF u.op = "pushLog" THEN [st EXCEPT !.logs = pushLog(react.logs, u.entry)]
    ELSE IF u.op = "setLogs" THEN [st EXCEPT !.logs = <<>>]
    ELSE IF u.op = "addLogResults"
         THEN [st EXCEPT !.testResults = addLogResults(@, u.entry)]
    ELSE IF u.op = "updateTestStatus"
         THEN [st EXCEPT !.testResults = updateTestStatus(@, u.name, u.status)]
    ELSE [st EXCEPT !.testResults = initialResults(u.names)]

\* one queued update applied to the state the earlier updates produced
applyUpdate(st, u) ==
    IF u.op = "pushLog" THEN [st EXCEPT !.logs = pushLog(@, u.entry)]
    ELSE IF u.op = "setLogs" THEN [st EXCEPT !.logs = <<>>]
    ELSE IF u.op = "addLogResults"
         THEN [st EXCEPT !.testResults = addLogResults(@, u.entry)]
    ELSE IF u.op = "updateTestStatus"
         THEN [st EXCEPT !.testResults = updateTestStatus(@, u.name, u.status)]
    ELSE [st EXCEPT !.testResults = initialResults(u.names)]

RECURSIVE flush(_, _)
flush(st, queue) ==
    IF queue = <<>> THEN st
    ELSE flush(applyUpdate(st, Head(queue)), Tail(queue))

\* what the component shows once React has applied the queued updates
rendered(r) == flush([logs |-> r.logs, testResults |-> r.testResults], r.queue)

enqueue(r, updates) == [r EXCEPT !.queue = @ \o updates]

ReactInit ==
    /\ variant = "browser"
    /\ suite = 1
    /\ pc = "react"
    /\ idx = 0
    /\ step = 0
    /\ logs = <<>>
    /\ testResults = <<>>
    /\ currentTest = ""
    /\ isRunning = FALSE
    /\ setup = "none"
    /\ thrown = "none"
    /\ outcome = NoOutcome
    /\ summary = NoSummary
    /\ own = NoOwn
    /\ leaked = NoResources
    /\ live = NoResources
    /\ react = NoReact
    /\ call = NoCall

\* the initialisation of both trackers: runAllTests assigns testResults and
\* keeps the log; runAllDaytonaTests passes its isRunning guard and calls
\* setIsRunning(true), setLogs([]) and setTestResults(...)
RcInitialize ==
    /\ Len(react.queue) < MaxQueue
    /\ ~isRunning
    /\ isRunning' = TRUE
    /\ testResults' = initialResults(TrackerNames)
    /\ react' = enqueue(react,
          << Update("setLogs", NoEntry, "", "", <<>>),
             Update("setTestResults", NoEntry, "", "", TrackerNames) >>)
    /\ call' = [op |-> "initialize", arg |-> "", val |-> ""]
    /\ UNCHANGED <<variant, suite, acct, thrown, pc, idx, step, logs, currentTest,
                   setup, outcome, summary>>

RcAddLog ==
    /\ Len(react.queue) < MaxQueue
    /\ Len(logs) < MaxTrackerLogs
    /\ \E type \in ReactTypes, category \in ReactCategories :
          /\ addLog("message", type, category)
          /\ react' = enqueue(react,
                << Update("pushLog", LogEntry(type, "message", category), "", "", <<>>),
                   Update("addLogResults", LogEntry(type, "message", category), "", "", <<>>) >>)
    /\ UNCHANGED <<variant, suite, acct, thrown, pc, idx, step, currentTest, isRunning,
                   setup, outcome, summary>>

RcUpdateTestStatus ==
    /\ Len(react.queue) < MaxQueue
    /\ \E testName \in ReactCategories, status \in ReactStatuses :
          /\ setStatus(testName, status)
          /\ react' = enqueue(react, << Update("updateTestStatus", NoEntry, testName,
                                                status, <<>>) >>)
    /\ UNCHANGED <<variant, suite, acct, thrown, pc, idx, step, logs, currentTest,
                   isRunning, setup, outcome, summary>>

\* React renders: the queued updates are applied and the queue is empty
RcRender ==
    /\ react.queue # <<>>
    /\ react' = [logs |-> rendered(react).logs,
                 testResults |-> rendered(react).testResults,
                 queue |-> <<>>]
    /\ call' = [op |-> "render", arg |-> "", val |-> ""]
    /\ UNCHANGED <<variant, suite, acct, thrown, pc, idx, step, logs, testResults,
                   currentTest, isRunning, setup, outcome, summary>>

\* the end of a run of the component: setIsRunning(false) in the finally
\* block of runAllDaytonaTests
RcSetNotRunning ==
    /\ isRunning
    /\ isRunning' = FALSE
    /\ call' = [op |-> "setIsRunning", arg |-> "", val |-> "false"]
    /\ UNCHANGED <<variant, suite, react, acct, thrown, pc, idx, step, logs,
                   testResults, currentTest, setup, outcome, summary>>

\* the CLEAR LOGS button of the component, disabled while a run is active:
\* setLogs([]) and setTestResults([]); the class has no such method
RcClearLogs ==
    /\ Len(react.queue) < MaxQueue
    /\ ~isRunning
    /\ react' = enqueue(react,
          << Update("setLogs", NoEntry, "", "", <<>>),
             Update("setTestResults", NoEntry, "", "", <<>>) >>)
    /\ call' = [op |-> "clearLogs", arg |-> "", val |-> ""]
    /\ UNCHANGED <<variant, suite, acct, thrown, pc, idx, step, logs, testResults,
                   currentTest, isRunning, setup, outcome, summary>>

ReactNext ==
    \/ RcInitialize
    \/ RcAddLog
    \/ RcUpdateTestStatus
    \/ RcSetNotRunning
    \/ RcClearLogs
    \/ RcRender

SpecReact == ReactInit /\ [][ReactNext]_vars

\* ================================================================ claims
Tracked == DOMAIN testResults

statusOf(i) == testResults[i].status

\* the driver has left its try block
RunEnded == pc \in {"setNotRunning", "logCompleted", "summary", "done"}

Rejected == {i \in 1..NumTests : outcome[i] = "rejected"}

\* C1 as stated: a test whose procedure rejects gets status error, and
\* whatever the outcome of a test, every test of the suite has reached a
\* terminal status (hence has been dispatched) when a run whose setup
\* succeeded ends.
C1_Isolation ==
    /\ \A i \in Tracked : outcome[i] = "rejected" => statusOf(i) = "error"
    /\ (setup = "ok" /\ RunEnded) => \A i \in Tracked : statusOf(i) \in Terminal

Allowed(a, b) ==
    \/ a = b
    \/ a = "pending" /\ b = "running"
    \/ a = "running" /\ b \in Terminal

\* C2: within a run (between two initialisations or clears) every step takes
\* each test's status along pending -> running -> (success | error): it
\* never skips running, never returns to pending, never leaves a terminal
\* status.
C2_StatusSequence ==
    [][ \/ call'.op \in {"initialize", "clearLogs"}
        \/ /\ DOMAIN testResults' = DOMAIN testResults
           /\ \A i \in Tracked : Allowed(statusOf(i), testResults'[i].status) ]_vars

C2_Witness ==
    /\ Len(testResults) >= 2
    /\ statusOf(1) = "success"
    /\ statusOf(2) = "running"
    /\ Len(testResults[2].logs) >= 2

\* C3: at most one test is running, and a test has left pending only if
\* every test declared before it is already success or error.
C3_Sequential ==
    /\ Cardinality({i \in Tracked : statusOf(i) = "running"}) <= 1
    /\ \A i \in Tracked : statusOf(i) # "pending" =>
           \A j \in Tracked : j < i => statusOf(j) \in Terminal

C3_Witness ==
    /\ Len(testResults) >= 2
    /\ statusOf(1) = "error"
    /\ statusOf(2) = "running"
    /\ pc = "body"
    /\ step > 1

\* C4 as stated: when a run whose setup succeeded is over, the tests with
\* status error are exactly those whose procedure rejected, all others are
\* success, and the summary reports (total - |F|)/total successful.
C4_FinalStatuses ==
    (pc = "done" /\ setup = "ok" /\ testResults # <<>>) =>
        /\ \A i \in Tracked :
              statusOf(i) = IF i \in Rejected THEN "error" ELSE "success"
        /\ variant # "browser" =>
              /\ summary.total = Len(tests(variant))
              /\ summary.successful = summary.total - Cardinality(Rejected)
              /\ summary.failed = Cardinality(Rejected)

GeneralErrors == SelectSeq(logs, LAMBDA e : e.type = "error" /\ e.category = "general")

\* C5: in the Deno and Bun scripts a missing API key aborts the run before
\* any test is dispatched: every TestResult stays pending, and exactly one
\* error entry of category general is recorded.
C5_SetupFailure ==
    (variant # "browser" /\ setup = "nokey") =>
        /\ idx = 0
        /\ currentTest = ""
        /\ \A i \in Tracked : statusOf(i) = "pending" /\ testResults[i].logs = <<>>
        /\ Len(GeneralErrors) <= 1
        /\ RunEnded => Len(GeneralErrors) = 1

C5_Witness ==
    /\ variant = "bun"
    /\ setup = "nokey"
    /\ pc = "done"
    /\ Len(testResults) = Len(tests(variant))
    /\ Len(GeneralErrors) = 1

\* C6: every addLog call appends its entry to the global log, and appends
\* the same entry to the logs of a TestResult iff that TestResult's name is
\* the category; with no such TestResult every TestResult is unchanged.
C6_LogRouting ==
    [][ call'.op = "addLog" =>
          /\ Len(logs') = Len(logs) + 1
          /\ SubSeq(logs', 1, Len(logs)) = logs
          /\ logs'[Len(logs')].category = call'.arg
          /\ logs'[Len(logs')].type = call'.val
          /\ DOMAIN testResults' = DOMAIN testResults
          /\ \A i \in Tracked :
                /\ testResults'[i].name = testResults[i].name
                /\ testResults'[i].status = testResults[i].status
                /\ testResults[i].name = call'.arg =>
                      testResults'[i].logs = Append(testResults[i].logs, logs'[Len(logs')])
                /\ testResults[i].name # call'.arg =>
                      testResults'[i].logs = testResults[i].logs
          /\ (\A i \in Tracked : testResults[i].name # call'.arg) =>
                testResults' = testResults ]_vars

C6_Witness ==
    /\ call.op = "addLog"
    /\ call.arg = "NoSuchTest"
    /\ call.val = "error"
    /\ Len(testResults) = 2
    /\ Len(testResults[1].logs) = 1
    /\ testResults[2].logs = <<>>
    /\ Len(logs) = 2

ofCategory(lg, c) == SelectSeq(lg, LAMBDA e : e.category = c)

\* C7: within a run the global log only grows at its end, each test's logs
\* only grows at its end by the entry just emitted, and each test's logs is
\* exactly the subsequence of the global log with that test's category.
C7_LogOrdering ==
    [][ /\ \A i \in DOMAIN testResults' :
              testResults'[i].logs = ofCategory(logs', testResults'[i].name)
        /\ \/ call'.op \in {"initialize", "clearLogs"}
           \/ /\ logs' = logs
              /\ \A i \in Tracked : testResults'[i].logs = testResults[i].logs
           \/ /\ Len(logs') = Len(logs) + 1
              /\ SubSeq(logs', 1, Len(logs)) = logs
              /\ \A i \in Tracked :
                    \/ testResults'[i].logs = testResults[i].logs
                    \/ testResults'[i].logs =
                          Append(testResults[i].logs, logs'[Len(logs')]) ]_vars

C7_Witness ==
    /\ Len(testResults) >= 2
    /\ Len(testResults[1].logs) >= 3
    /\ Len(testResults[2].logs) >= 2
    /\ Len(logs) >= Len(testResults[1].logs) + Len(testResults[2].logs) + 2
    /\ logs[1].category = "general"

WrapperFinal == {"completed successfully", "Error in test"}

\* the entry that this step appended to the logs of test i, if any
Grew(i) ==
    /\ call'.op = "addLog"
    /\ i \in DOMAIN testResults'
    /\ Len(testResults'[i].logs) = Len(testResults[i].logs) + 1

\* C8 as stated: every log entry with category T is appended while T is
\* running (after T became running, before T became success or error).
C8_Original ==
    [][ \A i \in Tracked : Grew(i) => statusOf(i) = "running" ]_vars

\* C8 amended: T is running before any entry with category T is appended;
\* the Starting entry and all body entries are appended while T is running;
\* the wrapper's single completion / error entry is appended after the
\* terminal status has been set, and it matches that status.
C8_Amended ==
    [][ \A i \in Tracked : Grew(i) =>
          LET e == testResults'[i].logs[Len(testResults'[i].logs)] IN
          /\ statusOf(i) # "pending"
          /\ testResults'[i].status = statusOf(i)
          /\ e.message \notin WrapperFinal => statusOf(i) = "running"
          /\ e.message \in WrapperFinal =>
                /\ statusOf(i) \in Terminal
                /\ (e.message = "completed successfully") = (statusOf(i) = "success")
                /\ \A k \in DOMAIN testResults[i].logs :
                      testResults[i].logs[k].message \notin WrapperFinal ]_vars

C8_Witness ==
    /\ Len(testResults) >= 1
    /\ statusOf(1) = "success"
    /\ Len(testResults[1].logs) >= 4
    /\ testResults[1].logs[Len(testResults[1].logs)].message = "completed successfully"
    /\ call.op = "addLog"
    /\ call.arg = testResults[1].name

\* C9: successful + failed never exceeds total, for the live TestResults and
\* for what printSummary printed; after a run whose setup succeeded and in
\* which every test was dispatched and settled, printSummary reports
\* successful + failed = total.
C9_SummaryCounts ==
    /\ successful(testResults) + failed(testResults) <= total(testResults)
    /\ summary.successful + summary.failed <= summary.total
    /\ (variant # "browser" /\ pc = "done" /\ setup = "ok"
          /\ \A i \in Tracked : outcome[i] # "none") =>
          /\ summary.successful + summary.failed = summary.total
          /\ summary.total = Len(tests(variant))

C9_Witness ==
    /\ variant = "bun"
    /\ pc = "done"
    /\ setup = "ok"
    /\ summary.failed >= 1
    /\ summary.successful >= 1
    /\ summary.successful + summary.failed = summary.total

\* C10 as stated: in the Deno and Bun scripts printSummary runs exactly
\* once per runAllTests call, as its last step; when it runs after a
\* successful setup every test of the suite, the last one included, has
\* settled (status success or error), and it also runs when setup failed
\* and no test was dispatched.
C10_SummaryOnce ==
    variant # "browser" =>
        /\ summary.printed = IF pc = "done" THEN 1 ELSE 0
        /\ summary.printed = 1 =>
              /\ setup = "ok" => \A i \in Tracked : statusOf(i) \in Terminal
              /\ setup # "ok" => \A i \in Tracked : statusOf(i) = "pending"
              /\ logs[Len(logs)].message = "All Daytona SDK tests completed"

\* the names of the tracked TestResults, in order
Names(tr) == [i \in DOMAIN tr |-> tr[i].name]

\* C11: from suite initialisation until the next reset or clear, the tracked
\* collection is exactly the declared names, in declared order and pairwise
\* distinct: no step of the run adds, removes, renames or reorders entries.
C11_OnePerName ==
    (pc # "idle" /\ call.op # "clearLogs") =>
        /\ Len(testResults) = Len(tests(variant))
        /\ \A i \in Tracked : testResults[i].name = tests(variant)[i]
        /\ \A i, j \in Tracked : i # j => testResults[i].name # testResults[j].name

C11_Witness ==
    /\ variant = "browser"
    /\ pc = "done"
    /\ setup = "ok"
    /\ call.op = "addLog"
    /\ Len(testResults) = Len(tests(variant))
    /\ \A i \in Tracked : statusOf(i) \in Terminal /\ Len(testResults[i].logs) >= 2

WrapperErrors(c) == SelectSeq(ofCategory(logs, c), LAMBDA e : e.message = "Error in test")

MainErrors == SelectSeq(logs, LAMBDA e : e.message = "Error in main execution")

\* C12 as stated: a failing test procedure never reaches the driver's catch
\* block: it yields status error and exactly one wrapper error entry (error
\* level, the test's category), a test that did not fail yields none, and
\* the 'Error in main execution' entry exists only after a setup failure.
C12_Containment ==
    /\ pc = "mainCatch" => setup \in {"nokey", "ctor"}
    /\ MainErrors # <<>> => setup \in {"nokey", "ctor"}
    /\ \A i \in Tracked :
          LET errs == WrapperErrors(testResults[i].name) IN
          /\ \A k \in DOMAIN errs :
                errs[k].type = "error" /\ errs[k].category = testResults[i].name
          /\ Len(errs) = IF outcome[i] = "rejected" /\ ~(pc = "logError" /\ idx = i)
                         THEN 1 ELSE 0
          /\ outcome[i] = "rejected" => statusOf(i) = "error"

\* C13 as stated: when a test has reached success or error, every sandbox,
\* volume and snapshot it provisioned has been deleted.
C13_Teardown ==
    \A i \in Tracked : statusOf(i) \in Terminal => own[i] = Nothing

\* C14: right after suite initialisation there is one TestResult per declared
\* name, in declared order, pending and with empty logs, whatever an earlier
\* run left behind; in the browser the global log is empty as well.
C14_Initialize ==
    call.op = "initialize" =>
        /\ Len(testResults) = Len(tests(variant))
        /\ \A i \in Tracked :
              /\ testResults[i].name = tests(variant)[i]
              /\ statusOf(i) = "pending"
              /\ testResults[i].logs = <<>>
        /\ variant = "browser" => logs = <<>>

C14_Witness ==
    /\ variant = "browser"
    /\ call.op = "initialize"
    /\ currentTest = tests(variant)[Len(tests(variant))]
    /\ Len(testResults) = Len(tests(variant))
    /\ logs = <<>>

\* C15: an updateTestStatus(name, status) call changes nothing but the status
\* field of the TestResult called name; with no such TestResult it changes
\* nothing at all.
C15_StatusFrame ==
    [][ call'.op = "updateTestStatus" =>
          /\ logs' = logs
          /\ DOMAIN testResults' = DOMAIN testResults
          /\ \A i \in Tracked :
                /\ testResults'[i].name = testResults[i].name
                /\ testResults'[i].logs = testResults[i].logs
                /\ testResults'[i].status =
                      IF testResults[i].name = call'.arg THEN call'.val
                                                         ELSE statusOf(i)
          /\ (\A i \in Tracked : testResults[i].name # call'.arg) =>
                testResults' = testResults
          /\ UNCHANGED <<variant, suite, react, pc, idx, step, currentTest, isRunning,
                         setup, thrown, outcome, summary, acct>> ]_vars

C15_Witness ==
    /\ call.op = "updateTestStatus"
    /\ Len(testResults) = 2
    /\ call.arg = testResults[2].name
    /\ statusOf(2) = "error"
    /\ statusOf(1) = "running"
    /\ Len(testResults[2].logs) = 1
    /\ Len(testResults[1].logs) = 1

IsPrefix(a, b) == Len(a) <= Len(b) /\ SubSeq(b, 1, Len(a)) = a

\* C16 as stated: every step leaves the recorded entries in place, so the
\* earlier global log is always a prefix of the later one.
C16_Original ==
    [][ IsPrefix(logs, logs') ]_vars

\* C16 amended: the global log is append-only in the Deno and Bun scripts;
\* in the browser it is append-only within a run and is emptied only by the
\* start of a new run and by clearLogs.
C16_Amended ==
    [][ \/ IsPrefix(logs, logs')
        \/ /\ variant = "browser"
           /\ call'.op \in {"initialize", "clearLogs"}
           /\ logs' = <<>> ]_vars

C16_Witness ==
    /\ variant = "browser"
    /\ call.op = "clearLogs"
    /\ pc = "done"
    /\ setup = "ok"
    /\ logs = <<>>
    /\ testResults = <<>>

\* C17 as stated: once a test has status success or error, no later step
\* before the next reset or clear changes its status or its logs.
C17_Original ==
    [][ \/ call'.op \in {"initialize", "clearLogs"}
        \/ \A i \in Tracked :
              statusOf(i) \in Terminal => testResults'[i] = testResults[i] ]_vars

\* C17 amended: once a test has status success or error, the only later
\* change to its record before the next reset or clear is the wrapper's own
\* completion / error entry, appended by the step right after the status
\* was set (or not at all, when the error message cannot be built); its
\* status never changes again.
C17_Amended ==
    [][ \/ call'.op \in {"initialize", "clearLogs"}
        \/ \A i \in Tracked :
              statusOf(i) \in Terminal =>
                 IF pc \in {"logSuccess", "logError"} /\ idx = i /\ call'.op = "addLog"
                 THEN /\ testResults'[i].status = statusOf(i)
                      /\ testResults'[i].name = testResults[i].name
                      /\ Len(testResults'[i].logs) = Len(testResults[i].logs) + 1
                      /\ SubSeq(testResults'[i].logs, 1, Len(testResults[i].logs))
                            = testResults[i].logs
                      /\ testResults'[i].logs[Len(testResults'[i].logs)].message
                            \in WrapperFinal
                 ELSE testResults'[i] = testResults[i] ]_vars

C17_Witness ==
    /\ variant = "deno"
    /\ pc = "done"
    /\ summary.printed = 1
    /\ Len(testResults) >= 2
    /\ statusOf(1) = "error"
    /\ Len(testResults[1].logs) = 3
    /\ testResults[1].logs[3].message = "Error in test"
    /\ statusOf(2) = "success"

\* C18: a body whose awaited SDK call never settles blocks the suite: at
\* that point its test is running, every later test is pending and no
\* summary has been printed, and no later step changes the position of the
\* driver, a status or the summary; the only entries still logged are those
\* of a callback the pending call was given, under the test's own category
\* (a second click on the start button returns at once).
C18_NoTimeout ==
    [][ /\ pc = "hung" =>
              /\ UNCHANGED <<variant, suite, pc, idx, step, currentTest, isRunning,
                             setup, thrown, outcome, summary, acct>>
              /\ DOMAIN testResults' = DOMAIN testResults
              /\ \A i \in Tracked : testResults'[i].status = statusOf(i)
              /\ logs' # logs =>
                    /\ thisBody[step].cb
                    /\ logs' = Append(logs, LogEntry(thisBody[step].type,
                                                     thisBody[step].message,
                                                     testResults[idx].name))
        /\ pc' = "hung" =>
              /\ idx' \in DOMAIN testResults'
              /\ testResults'[idx'].status = "running"
              /\ \A j \in DOMAIN testResults' :
                    j > idx' => testResults'[j].status = "pending"
              /\ summary'.printed = 0
              /\ isRunning' = (variant = "browser") ]_vars

C18_Witness ==
    /\ pc = "hung"
    /\ variant = "deno"
    /\ idx = 2
    /\ step = 2
    /\ statusOf(1) \in Terminal
    /\ statusOf(2) = "running"
    /\ Len(testResults[2].logs) = 2
    /\ summary.printed = 0

Starts(i) == SelectSeq(testResults[i].logs, LAMBDA e : e.message = "Starting")

Finals(i) == SelectSeq(testResults[i].logs, LAMBDA e : e.message \in WrapperFinal)

\* C19 as stated: within a run each test procedure is invoked at most once:
\* a test has exactly one Starting entry once its wrapper has logged it and
\* none before, at most one completion or error entry, and after a run whose
\* setup succeeded every test was invoked exactly once and settled.
C19_NoRetries ==
    /\ \A i \in Tracked :
          /\ Len(Starts(i)) = IF i <= idx /\ ~(pc = "logStarting" /\ idx = i)
                              THEN 1 ELSE 0
          /\ Len(Finals(i)) <= 1
          /\ Len(Finals(i)) = 1 => outcome[i] # "none"
    /\ (setup = "ok" /\ RunEnded) =>
          \A i \in Tracked :
             Len(Starts(i)) = 1 /\ Len(Finals(i)) = 1 /\ outcome[i] # "none"

\* C20: in each script the awaited wrapper calls are in the declared order,
\* so the tests that have left pending are exactly the first idx declared
\* names and the test dispatched last is the idx-th TestResult.
C20_DeclaredOrder ==
    /\ \A v \in Variants : CallOrder(v) = DeclaredTests(v)
    /\ \A i \in Tracked : (statusOf(i) # "pending") = (i <= idx)
    /\ (idx >= 1 /\ testResults # <<>>) =>
          /\ idx \in Tracked
          /\ dispatched(variant)[idx] = testResults[idx].name
          /\ currentTest = testResults[idx].name

C20_Witness ==
    /\ variant = "browser"
    /\ idx = 2
    /\ statusOf(2) = "running"
    /\ testResults[2].name = "Lifecycle Test"
    /\ currentTest = "Lifecycle Test"
    /\ statusOf(1) \in Terminal

\* a run that got past its one-time setup and has not ended
SetupDone == setup = "ok" /\ pc \notin {"idle", "done"}

Finished ==
    /\ pc = "done"
    /\ testResults # <<>>
    /\ \A i \in Tracked : statusOf(i) \in Terminal
    /\ logs # <<>>
    /\ logs[Len(logs)].message = "All Daytona SDK tests completed"
    /\ variant # "browser" => summary.printed = 1

\* C21 as stated: once setup has succeeded, the run eventually finishes
\* (every test success or error, the final general entry recorded, the
\* summary printed in the Deno and Bun scripts) unless an awaited SDK call
\* never settles.
C21_Termination == SetupDone ~> (Finished \/ pc = "hung")

\* the positions of the driver between setIsRunning(true) and setIsRunning(false)
ActiveRun == {"logStart", "setup", "logCreated", "dispatch", "logStarting", "body",
              "hung", "logSuccess", "logError", "mainCatch", "setNotRunning"}

\* C23: in the browser isRunning is true exactly from the start of a run to
\* the start of its finally block, whatever failed; a run starts only while
\* it is false, and runAllDaytonaTests invoked while it is true changes
\* neither the log nor the TestResults nor anything else.
C23_SingleRun ==
    /\ [](variant = "browser" => (isRunning <=> pc \in ActiveRun))
    /\ [][ call'.op = "runAllDaytonaTests" =>
              /\ isRunning
              /\ UNCHANGED <<variant, suite, pc, idx, step, logs, testResults,
                             currentTest, isRunning, setup, thrown, outcome, summary,
                             acct>> ]_vars
    /\ [][ (variant = "browser" /\ call'.op = "initialize") =>
              ~isRunning /\ isRunning' ]_vars

C23_Witness ==
    /\ variant = "browser"
    /\ call.op = "runAllDaytonaTests"
    /\ isRunning
    /\ pc = "body"
    /\ idx = 2
    /\ statusOf(1) = "error"
    /\ statusOf(2) = "running"

ErrorEntries(i) == SelectSeq(testResults[i].logs, LAMBDA e : e.type = "error")

Resolved == {i \in 1..NumTests : outcome[i] = "resolved"}

\* C24: a test's terminal status is error iff its procedure rejected and
\* success iff it returned, whatever error-level entries its body logged;
\* printSummary counts every test whose procedure returned as successful.
C24_ThrowOnly ==
    /\ \A i \in Tracked :
          statusOf(i) \in Terminal =>
             /\ (statusOf(i) = "success") = (outcome[i] = "resolved")
             /\ (statusOf(i) = "error") = (outcome[i] = "rejected")
    /\ (variant # "browser" /\ pc = "done" /\ setup = "ok") =>
          summary.successful = Cardinality(Resolved)

C24_Witness ==
    /\ variant = "deno"
    /\ pc = "done"
    /\ Len(testResults) >= 2
    /\ testResults[2].name = "Lifecycle Test"
    /\ outcome[2] = "resolved"
    /\ Len(ErrorEntries(2)) = 1
    /\ ErrorEntries(2)[1].message = "Command error:"
    /\ statusOf(2) = "success"
    /\ summary.successful = Len(tests(variant))

\* C25: in each script every name passed to runTestWithErrorHandling is a
\* declared name and every body logs under the name of its own test, so in
\* a run every updateTestStatus call changes a status and every addLog call
\* with a test category grows the logs of a TestResult.
C25_KnownNames ==
    /\ [](\A v \in Variants : \A i \in DOMAIN CallOrder(v) :
            /\ \E j \in DOMAIN DeclaredTests(v) : DeclaredTests(v)[j] = CallOrder(v)[i]
            /\ BodyCategories(v)[i] = CallOrder(v)[i])
    /\ [][ call'.op = "updateTestStatus" =>
              \E i \in Tracked :
                 /\ testResults[i].name = call'.arg
                 /\ testResults'[i].status # statusOf(i) ]_vars
    /\ [][ (call'.op = "addLog" /\ call'.arg # "general") =>
              \E i \in Tracked :
                 /\ testResults[i].name = call'.arg
                 /\ Len(testResults'[i].logs) = Len(testResults[i].logs) + 1 ]_vars

C25_Witness ==
    /\ call.op = "addLog"
    /\ call.arg = "Lifecycle Test"
    /\ pc = "body"
    /\ idx = 2
    /\ step = 4
    /\ Len(testResults[2].logs) = 3

\* what a body that runs to its end can leave to its test, from statement k
RECURSIVE finish(_, _, _, _)
finish(b, k, o, n) ==
    IF k \notin DOMAIN b THEN {o}
    ELSE UNION {finish(b, j, r, n + (IF b[k].bounded THEN 1 ELSE 0)) :
                   j \in after(b, k, n + (IF b[k].bounded THEN 1 ELSE 0)),
                   r \in resolved(b[k].effect, o, TRUE)}

\* the bodies that can return with a sandbox of theirs still there
SandboxesLeft ==
    {vi \in UNION {{<<v, i>> : i \in DOMAIN Bodies(v)} : v \in Variants} :
        \E o \in finish(Bodies(vi[1])[vi[2]], 1, Nothing, 0) : o.sandbox > 0}

\* C26: every body that runs to its end has deleted as many sandboxes as it
\* created, and a test gets status success only after its cleanup: when the
\* status is set, and ever after, none of the sandboxes it created is left.
C26_SuccessCleanup ==
    /\ [](SandboxesLeft = {})
    /\ [](\A i \in Tracked : statusOf(i) = "success" => own[i].sandbox = 0)
    /\ [][ \A i \in Tracked :
              (i \in DOMAIN testResults' /\ statusOf(i) # "success"
                 /\ testResults'[i].status = "success") =>
                   /\ own'[i].sandbox = 0
                   /\ "sandbox" \notin kinds(own'[i]) ]_vars

C26_Witness ==
    /\ variant = "deno"
    /\ call.op = "updateTestStatus"
    /\ call.val = "success"
    /\ idx = 1
    /\ statusOf(1) = "success"
    /\ own[1] = [sandbox |-> 0, volume |-> 1, snapshot |-> 0]
    /\ live[1] = {"volume"}

Completed == SelectSeq(logs, LAMBDA e : e.message = "All Daytona SDK tests completed")

\* C28 as stated: a run that reaches its end has recorded the final entry
\* (info, general) exactly once, as the last entry of the global log and,
\* after a setup failure, right after the general error entry; a run in
\* progress has not recorded it, and no status changes once it is recorded.
C28_CompletedLast ==
    /\ []((pc \in {"summary", "done"} /\ logs # <<>>) =>
            /\ Len(Completed) = 1
            /\ logs[Len(logs)] = LogEntry("info", "All Daytona SDK tests completed", "general")
            /\ setup # "ok" =>
                  /\ Len(logs) >= 2
                  /\ logs[Len(logs) - 1].message = "Error in main execution")
    /\ [](pc \notin {"summary", "done"} => Completed = <<>>)
    /\ []((pc \in {"summary", "done"} /\ call.op \notin {"clearLogs", "initialize"}) =>
            logs # <<>>)
    /\ [][ (Completed # <<>> /\ call'.op \notin {"initialize", "clearLogs"}) =>
              \A i \in Tracked : testResults'[i].status = statusOf(i) ]_vars

\* C29: currentTest changes only when the wrapper is entered, to the name of
\* the test being dispatched: it is empty as long as no test was dispatched,
\* it is the name of the test dispatched last (hence of the running test)
\* afterwards, and no settling, end of run or clearLogs resets it.
C29_CurrentTest ==
    /\ [](\A i \in Tracked : statusOf(i) = "running" => currentTest = testResults[i].name)
    /\ [](idx >= 1 => currentTest = dispatched(variant)[idx])
    /\ [](currentTest = "" => idx = 0 /\ \A i \in Tracked : statusOf(i) = "pending")
    /\ [][ currentTest' # currentTest =>
              /\ pc = "dispatch"
              /\ idx' = idx + 1
              /\ currentTest' = dispatched(variant)[idx'] ]_vars

C29_Witness ==
    /\ variant = "browser"
    /\ call.op = "clearLogs"
    /\ pc = "done"
    /\ testResults = <<>>
    /\ currentTest = dispatched(variant)[Len(dispatched(variant))]

\* C22: in the browser clearLogs empties the global log and the TestResult
\* list and changes nothing else (isRunning and currentTest included); on
\* the empty list an addLog or updateTestStatus call, with any arguments,
\* yields the empty list, so no TestResult changes until the list is
\* initialised again.
C22_ClearLogs ==
    /\ [][ call'.op = "clearLogs" =>
              /\ variant = "browser"
              /\ logs' = <<>>
              /\ testResults' = <<>>
              /\ UNCHANGED <<variant, suite, pc, idx, step, currentTest, isRunning,
                             setup, thrown, outcome, summary, acct, react>> ]_vars
    /\ [][ (testResults = <<>> /\ call'.op \in {"addLog", "updateTestStatus"}) =>
              testResults' = <<>> ]_vars
    /\ [](\A name \in TrackerCategories :
            /\ \A type \in {"info", "success", "error"} :
                  addLogResults(<<>>, LogEntry(type, "message", name)) = <<>>
            /\ \A status \in Statuses : updateTestStatus(<<>>, name, status) = <<>>)

C22_Witness ==
    /\ variant = "browser"
    /\ call.op = "clearLogs"
    /\ ~isRunning
    /\ idx = 1
    /\ currentTest = "Volumes Test"
    /\ outcome[1] = "resolved"
    /\ logs = <<>>
    /\ testResults = <<>>

\* what the component shows once React has applied its queued updates
shown == rendered(react)

IsSuffix(a, b) == Len(a) <= Len(b) /\ SubSeq(b, Len(b) - Len(a) + 1, Len(b)) = a

\* C27 as stated: after every initialize, addLog and updateTestStatus call,
\* and after every render, the state React shows once its queued updates
\* are applied is the state of the class tracker: same global log, same
\* TestResults.
C27_TrackerEquivalence ==
    /\ shown.logs = logs
    /\ shown.testResults = testResults
    /\ react.queue = <<>> => (react.logs = logs /\ react.testResults = testResults)

\* C27 amended: the two trackers agree on addLog and updateTestStatus, which
\* append the same entry to both global logs and map equal TestResult lists
\* to equal lists, and on the TestResult list that initialize yields; but
\* initialize empties the global log of the component and keeps that of the
\* class, and clearLogs, which only the component has, empties its log and
\* its list.  So the component's log is the end of the class's log (all of
\* it while the component has emptied nothing recorded), its TestResult
\* list is the class's or, from clearLogs to the next initialize, empty,
\* and a render changes nothing of what is shown.
C27_Amended ==
    /\ [](LET now == shown
           IN  /\ IsSuffix(now.logs, logs)
               /\ now.testResults \in {testResults, <<>>}
               /\ react.queue = <<>> =>
                     (react.logs = now.logs /\ react.testResults = now.testResults))
    /\ [][ LET before == shown
               after_ == rendered(react')
           IN  /\ call'.op = "addLog" =>
                     /\ logs' = Append(logs, logs'[Len(logs')])
                     /\ after_.logs = Append(before.logs, logs'[Len(logs')])
                     /\ before.testResults = testResults =>
                           after_.testResults = testResults'
               /\ call'.op = "updateTestStatus" =>
                     /\ logs' = logs
                     /\ after_.logs = before.logs
                     /\ before.testResults = testResults =>
                           after_.testResults = testResults'
               /\ call'.op = "initialize" =>
                     /\ logs' = logs
                     /\ after_.logs = <<>>
                     /\ after_.testResults = testResults'
               /\ call'.op = "clearLogs" =>
                     /\ logs' = logs
                     /\ testResults' = testResults
                     /\ after_.logs = <<>>
                     /\ after_.testResults = <<>>
               /\ call'.op \in {"render", "setIsRunning"} =>
                     /\ logs' = logs
                     /\ testResults' = testResults
                     /\ after_ = before ]_vars

C27_Witness ==
    /\ Len(react.queue) = MaxQueue
    /\ react.logs # <<>>
    /\ Len(logs) = 2
    /\ Len(shown.logs) = 1
    /\ Len(testResults) = 2
    /\ shown.testResults = testResults
    /\ statusOf(1) = "error"
    /\ Len(testResults[1].logs) >= 1

====
